---- MODULE Spec2Model ----
(***************************************************************************)
(* The BobaScript virtual machine (src/bobascript/src/vm.rs) as a state    *)
(* machine.  One action per entry point of VM (define_native, interpret,   *)
(* evaluate) and one per OpCode dispatched by VM::run.  Indices (ip,       *)
(* slots_start, stack slots, constant and upvalue indices) are the code's  *)
(* zero-based usize values; sequences are read through At.                 *)
(*                                                                         *)
(* An Rc<RefCell<Upvalue>> is modelled by its position in VM::upvalues,    *)
(* the registry that holds every cell ever created: a closure holds cell   *)
(* numbers, and two closures share a cell iff they hold the same number.   *)
(* A panic of the Rust code (index out of bounds, unwrap of None) is the   *)
(* terminal control state "panicked".                                      *)
(***************************************************************************)
EXTENDS Integers, Sequences, FiniteSets, TLC

VARIABLES
  frames,      \* VM::frames : Vec<CallFrame>
  stack,       \* VM::stack : Vec<Value>
  globals,     \* VM::globals : HashMap<String, Value>
  upvalues,    \* VM::upvalues : Vec<Rc<RefCell<Upvalue>>>
  log_out,     \* the values VM::log_handler has been called with, in order
  host,        \* the last invocation of a native function: what the host saw
  pc,          \* "idle" | "running" (inside VM::run) | "returned" | "panicked"
  result,      \* what the last interpret/evaluate returned (or is about to)
  prog,        \* the function compiled by the current/last interpret/evaluate
  runs,        \* number of interpret/evaluate calls made so far
  dispatched,  \* instructions dispatched by VM::run in the current/last call
  err_frames,  \* number of frames at the moment the last runtime error arose
  session      \* the compiler and the texts of the session, compiled

vars == <<frames, stack, globals, upvalues, log_out, host, pc, result, prog,
          runs, dispatched, err_frames, session>>

\* Number of interpret/evaluate calls explored on one VM.
MaxRuns == 3

\* vm.rs:232  `if self.frames.len() == 64`
MaxFrames == 64

At(s, i) == s[i + 1]
Front(s) == SubSeq(s, 1, Len(s) - 1)

----------------------------------------------------------------------------
(* Values (value.rs)                                                       *)

Number(n) == [t |-> "Number", v |-> n]
Boolean(b) == [t |-> "Boolean", v |-> b]
String(s) == [t |-> "String", v |-> s]
Tuple(s) == [t |-> "Tuple", v |-> s]
Function(f) == [t |-> "Function", v |-> f]
NativeFunction(n) == [t |-> "NativeFunction", v |-> n]
Closure(f, ups) == [t |-> "Closure", v |-> [function |-> f, upvalues |-> ups]]

get_unit == Tuple(<<>>)

Open(idx) == [st |-> "Open", idx |-> idx]
Closed(value) == [st |-> "Closed", value |-> value]

\* RuntimeError
Unknown == [e |-> "Unknown", args |-> <<>>]
TypeError(expected) == [e |-> "TypeError", args |-> <<expected>>]
OperationNotSupported == [e |-> "OperationNotSupported", args |-> <<>>]
UndefinedVariable(name) == [e |-> "UndefinedVariable", args |-> <<name>>]
InvalidCallSignature == [e |-> "InvalidCallSignature", args |-> <<>>]
IncorrectParameterCount(a, b) == [e |-> "IncorrectParameterCount", args |-> <<a, b>>]
StackOverflow == [e |-> "StackOverflow", args |-> <<>>]

\* Result<_, RuntimeError> of a host function / of run
Ok(v) == [k |-> "Ok", value |-> v]
Err(e) == [k |-> "Err", error |-> e]
NoResult == [k |-> "None"]

----------------------------------------------------------------------------
(* Chunks (chunk.rs).  An instruction is a record whose op is the OpCode   *)
(* variant and whose other fields are the variant's operands.              *)

Op(name) == [op |-> name]
Op1(name, a) == [op |-> name, a |-> a]
OpJump(direction, offset) == [op |-> "Jump", direction |-> direction, offset |-> offset]
OpClosure(idx, ups) == [op |-> "Closure", a |-> idx, upvalues |-> ups]
\* chunk::Upvalue
Local(i) == [is_local |-> TRUE, index |-> i]
Upvalue(i) == [is_local |-> FALSE, index |-> i]

MkFunction(arity, name, code, constants) ==
  [arity |-> arity, name |-> name, chunk |-> [code |-> code, constants |-> constants]]

----------------------------------------------------------------------------
(* The programs run on the VM: each is the Function that                   *)
(* Compiler::compile / compile_expr (compiler/compiler.rs) emits for the   *)
(* source text quoted above it.  Every compile context starts with the     *)
(* reserved local "" in slot 0, so the first declared local or parameter   *)
(* of a function is local 1.  A Function(f) constant names the function f  *)
(* of FunctionOf.                                                          *)

\* src/bobascript/src/lib.rs:90-106 (closures_with_closed_upvalues_work):
\*   fn outer() { let x = "outside"; fn inner() { x } inner }
\*   let closure = outer();
closed_script ==
  MkFunction(0, "",
    << OpClosure(1, <<>>), Op1("DefineGlobal", 0), Op1("GetGlobal", 3), Op1("Call", 0),
       Op1("DefineGlobal", 2), Op1("Tuple", 0), Op("Return") >>,
    << String("outer"), Function("closed_outer"), String("closure"), String("outer") >>)
closed_outer ==
  MkFunction(0, "outer",
    << Op1("Constant", 0), OpClosure(1, <<Local(1)>>), Op1("GetLocal", 2), Op("Return") >>,
    << String("outside"), Function("closed_inner") >>)
closed_inner ==
  MkFunction(0, "inner", << Op1("GetUpvalue", 0), Op("Return") >>, <<>>)

\* src/bobascript/src/lib.rs:108 : evaluate("closure()")
eval_closure ==
  MkFunction(0, "", << Op1("GetGlobal", 0), Op1("Call", 0), Op("Return") >>,
    << String("closure") >>)

\*   let g; let s;
\*   fn outer() {
\*     let x = 1;
\*     fn get() { x }
\*     fn set(v) { x = v }
\*     x = 2; log get(); set(3); log x; g = get; s = set;
\*   }
\*   outer(); s(4); log g();
share_script ==
  MkFunction(0, "",
    << Op1("Tuple", 0), Op1("DefineGlobal", 0), Op1("Tuple", 0), Op1("DefineGlobal", 1),
       OpClosure(3, <<>>), Op1("DefineGlobal", 2),
       Op1("GetGlobal", 4), Op1("Call", 0), Op("Pop"),
       Op1("GetGlobal", 5), Op1("Constant", 6), Op1("Call", 1), Op("Pop"),
       Op1("GetGlobal", 7), Op1("Call", 0), Op("Log"), Op("Pop"),
       Op1("Tuple", 0), Op("Return") >>,
    << String("g"), String("s"), String("outer"), Function("share_outer"),
       String("outer"), String("s"), Number(4), String("g") >>)
share_outer ==
  MkFunction(0, "outer",
    << Op1("Constant", 0), OpClosure(1, <<Local(1)>>), OpClosure(2, <<Local(1)>>),
       Op1("Constant", 3), Op1("SetLocal", 1), Op("Pop"),
       Op1("GetLocal", 2), Op1("Call", 0), Op("Log"), Op("Pop"),
       Op1("GetLocal", 3), Op1("Constant", 4), Op1("Call", 1), Op("Pop"),
       Op1("GetLocal", 1), Op("Log"), Op("Pop"),
       Op1("GetLocal", 2), Op1("SetGlobal", 5), Op("Pop"),
       Op1("GetLocal", 3), Op1("SetGlobal", 6), Op("Pop"),
       Op1("Tuple", 0), Op("Return") >>,
    << Number(1), Function("share_get"), Function("share_set"), Number(2), Number(3),
       String("g"), String("s") >>)
share_get ==
  MkFunction(0, "get", << Op1("GetUpvalue", 0), Op("Return") >>, <<>>)
share_set ==
  MkFunction(1, "set", << Op1("GetLocal", 1), Op1("SetUpvalue", 0), Op("Return") >>, <<>>)

\* src/tests/assignment.rs:150-166 (undefined):  unknown = "what";
undef_set ==
  MkFunction(0, "",
    << Op1("Constant", 1), Op1("SetGlobal", 0), Op("Pop"), Op1("Tuple", 0), Op("Return") >>,
    << String("unknown"), String("what") >>)
\* evaluate("unknown")
undef_get ==
  MkFunction(0, "", << Op1("GetGlobal", 0), Op("Return") >>, << String("unknown") >>)

\* src/tests/call.rs:5-63 :  true();   (1 + 2)();   "totally a function I swear"();   ()();
call_bool ==
  MkFunction(0, "",
    << Op("True"), Op1("Call", 0), Op("Pop"), Op1("Tuple", 0), Op("Return") >>, <<>>)
call_number ==
  MkFunction(0, "",
    << Op1("Constant", 0), Op1("Constant", 1), Op("Add"), Op1("Call", 0), Op("Pop"),
       Op1("Tuple", 0), Op("Return") >>,
    << Number(1), Number(2) >>)
call_string ==
  MkFunction(0, "",
    << Op1("Constant", 0), Op1("Call", 0), Op("Pop"), Op1("Tuple", 0), Op("Return") >>,
    << String("totally a function I swear") >>)
call_tuple ==
  MkFunction(0, "",
    << Op1("Tuple", 0), Op1("Call", 0), Op("Pop"), Op1("Tuple", 0), Op("Return") >>, <<>>)

\*   fn one(a) { a }   followed by   one();  /  one(1, 2);  /  log one(7);
one_fn ==
  MkFunction(1, "one", << Op1("GetLocal", 1), Op("Return") >>, <<>>)
arity0_script ==
  MkFunction(0, "",
    << OpClosure(1, <<>>), Op1("DefineGlobal", 0), Op1("GetGlobal", 2), Op1("Call", 0),
       Op("Pop"), Op1("Tuple", 0), Op("Return") >>,
    << String("one"), Function("one_fn"), String("one") >>)
arity2_script ==
  MkFunction(0, "",
    << OpClosure(1, <<>>), Op1("DefineGlobal", 0), Op1("GetGlobal", 2), Op1("Constant", 3),
       Op1("Constant", 4), Op1("Call", 2), Op("Pop"), Op1("Tuple", 0), Op("Return") >>,
    << String("one"), Function("one_fn"), String("one"), Number(1), Number(2) >>)
arity1_script ==
  MkFunction(0, "",
    << OpClosure(1, <<>>), Op1("DefineGlobal", 0), Op1("GetGlobal", 2), Op1("Constant", 3),
       Op1("Call", 1), Op("Log"), Op("Pop"), Op1("Tuple", 0), Op("Return") >>,
    << String("one"), Function("one_fn"), String("one"), Number(7) >>)

\*   fn rec() { rec() }   rec();
rec_script ==
  MkFunction(0, "",
    << OpClosure(1, <<>>), Op1("DefineGlobal", 0), Op1("GetGlobal", 2), Op1("Call", 0),
       Op("Pop"), Op1("Tuple", 0), Op("Return") >>,
    << String("rec"), Function("rec_fn"), String("rec") >>)
rec_fn ==
  MkFunction(0, "rec", << Op1("GetGlobal", 0), Op1("Call", 0), Op("Return") >>,
    << String("rec") >>)

\* src/tests/function.rs:56-78 (native_fns_work): evaluate("test(10, 20)"), and test(10)
native2_expr ==
  MkFunction(0, "",
    << Op1("GetGlobal", 0), Op1("Constant", 1), Op1("Constant", 2), Op1("Call", 2),
       Op("Return") >>,
    << String("test"), Number(10), Number(20) >>)
native1_expr ==
  MkFunction(0, "",
    << Op1("GetGlobal", 0), Op1("Constant", 1), Op1("Call", 1), Op("Return") >>,
    << String("test"), Number(10) >>)

\*   let closure;
\*   fn outer() { let x = 1; fn inner() { x } closure = inner; missing }
\*   outer();
abort_script ==
  MkFunction(0, "",
    << Op1("Tuple", 0), Op1("DefineGlobal", 0), OpClosure(2, <<>>), Op1("DefineGlobal", 1),
       Op1("GetGlobal", 3), Op1("Call", 0), Op("Pop"), Op1("Tuple", 0), Op("Return") >>,
    << String("closure"), String("outer"), Function("abort_outer"), String("outer") >>)
abort_outer ==
  MkFunction(0, "outer",
    << Op1("Constant", 0), OpClosure(1, <<Local(1)>>),
       Op1("GetLocal", 2), Op1("SetGlobal", 2), Op("Pop"),
       Op1("GetGlobal", 3), Op("Return") >>,
    << Number(1), Function("abort_inner"), String("closure"), String("missing") >>)
abort_inner ==
  MkFunction(0, "inner", << Op1("GetUpvalue", 0), Op("Return") >>, <<>>)

\*   { let x = 1; let y = 2; fn g() { x + y } g };
\* (block() inlines the block: end_scope emits, after the tail expression,
\*  Pop for g and CloseUpvalue for the captured y and x)
block_script ==
  MkFunction(0, "",
    << Op1("Constant", 0), Op1("Constant", 1), OpClosure(2, <<Local(1), Local(2)>>),
       Op1("GetLocal", 3), Op("Pop"), Op("CloseUpvalue"), Op("CloseUpvalue"), Op("Pop"),
       Op1("Tuple", 0), Op("Return") >>,
    << Number(1), Number(2), Function("block_g") >>)
block_g ==
  MkFunction(0, "g",
    << Op1("GetUpvalue", 0), Op1("GetUpvalue", 1), Op("Add"), Op("Return") >>, <<>>)

----------------------------------------------------------------------------
(* The compiler.  Two revisions of it are in the repository: the           *)
(* token-driven single-pass compiler (bobascript/src/compiler/compiler.rs, *)
(* the one VM::interpret calls) and the AST walker                         *)
(* (crates/bobascript/src/compiler: expressions.rs, statements.rs, with    *)
(* the helper methods of its compiler.rs).  A Compiler is a record c:      *)
(*   contexts  the stack of CompileContexts, the current one last          *)
(*   parser    the Parser (token revision) / the error slot (AST walker)   *)
(*   unit      the name of the compilation (of the source text compiled)   *)
(*   fns       the Functions allocated so far (Rc::new(function)); a       *)
(*             Value::Function holds the name FnId(unit, k) of the k-th    *)
(*   trace     history of the declarations and identifier resolutions      *)
(* Methods that return a value return [c |-> compiler, r |-> value].       *)

\* CompileError (compiler/mod.rs)
NoError == [e |-> "None", args |-> <<>>]
Expected(what) == [e |-> "Expected", args |-> <<what>>]
UndefinedBehavior(what) == [e |-> "UndefinedBehavior", args |-> <<what>>]
InvalidAssignmentTarget == [e |-> "InvalidAssignmentTarget", args |-> <<>>]
VariableAlreadyExists(name) == [e |-> "VariableAlreadyExists", args |-> <<name>>]
VariableDoesNotExist(name) == [e |-> "VariableDoesNotExist", args |-> <<name>>]
TooManyArguments == [e |-> "TooManyArguments", args |-> <<>>]
TopLevelReturn == [e |-> "TopLevelReturn", args |-> <<>>]
\* InterpretError::CompileError(#[from] CompileError)
CompileError(error) == [e |-> "CompileError", args |-> <<error>>]

\* Local { name, depth, is_captured }; scope is history: the scope depth at
\* which the local was declared (depth is -1 until it is initialised)
MkLocal(name, depth, scope) ==
  [name |-> name, depth |-> depth, is_captured |-> FALSE, scope |-> scope]

\* CompileContext::new(fn_type)
NewContext(fn_type) ==
  [function |-> MkFunction(0, "", <<>>, <<>>),
   fn_type |-> fn_type,
   locals |-> << MkLocal("", 0, 0) >>,
   upvalues |-> <<>>,
   scope_depth |-> 0]

\* Option<Token>
NoToken == [type |-> "None", lexeme |-> ""]
Token(type, lexeme) == [type |-> type, lexeme |-> lexeme]

\* Parser::new(source) on the tokens the scanner makes of the source
NewParser(tokens) ==
  [tokens |-> tokens, pos |-> 0, current |-> NoToken, previous |-> NoToken,
   error |-> NoError, panic_mode |-> FALSE]

\* Compiler::new
NewCompiler(tokens, unit) ==
  [contexts |-> << NewContext("TopLevel") >>,
   parser |-> NewParser(tokens),
   unit |-> unit,
   fns |-> <<>>,
   trace |-> <<>>,
   unwound |-> FALSE]

\* the name by which values refer to the k-th Function of a compilation
FnId(unit, k) == unit \o "#" \o ToString(k)

\* Rc::new(function)
rc_new(c, function) ==
  [c |-> [c EXCEPT !.fns = Append(@, function)], r |-> FnId(c.unit, Len(c.fns) + 1)]

\* a panic of the compiler (an unwrap of an Err): the compilation is unwound,
\* it returns nothing
unwrap_failed(c) == [c EXCEPT !.unwound = TRUE]

\* the history: set_error is called with err
erroneous(c, err) == [c EXCEPT !.trace = Append(@, [ev |-> "error", error |-> err])]

\* Parser::set_error
set_error(c, err) ==
  IF c.parser.panic_mode THEN erroneous(c, err)
  ELSE [erroneous(c, err) EXCEPT !.parser.panic_mode = TRUE, !.parser.error = err]

current_context(c) == c.contexts[Len(c.contexts)]
current_chunk(c) == current_context(c).function.chunk
scope_depth(c) == current_context(c).scope_depth
locals(c) == current_context(c).locals
\* (`c = c` in a condition: the compiler c has got its value there, so that
\* what it was made by is evaluated before what is done with it next)

\* contexts.iter_mut().nth_back(context_idx) is Some
has_context(c, context_idx) == context_idx < Len(c.contexts)
nth_back(c, context_idx) == Len(c.contexts) - context_idx

\* Compiler::push_context / pop_context
push_context(c, fn_type) == [c EXCEPT !.contexts = Append(@, NewContext(fn_type))]
pop_context(c) == [c EXCEPT !.contexts = Front(@)]

\* Compiler::make_constant (Chunk::add_constant)
make_constant(c, value) ==
  [c |-> [c EXCEPT !.contexts[Len(c.contexts)].function.chunk.constants = Append(@, value)],
   r |-> Len(current_chunk(c).constants)]

\* Compiler::emit_opcode_idx (Chunk::write)
emit_opcode_idx(c, opcode) ==
  [c |-> [c EXCEPT !.contexts[Len(c.contexts)].function.chunk.code = Append(@, opcode)],
   r |-> Len(current_chunk(c).code)]

\* Compiler::emit_opcode
emit_opcode(c, opcode) == emit_opcode_idx(c, opcode).c

\* the history: the jump at index at of the function being compiled is
\* meant to go to the instruction at index target
jumps(c, at, target) ==
  [ev |-> "jump", function |-> c.contexts[Len(c.contexts)].function.name,
   at |-> at, target |-> target]

\* Compiler::emit_loop
emit_loop(c, start) ==
  [emit_opcode(c, OpJump("Backwards", Len(current_chunk(c).code) - start + 1))
     EXCEPT !.trace = Append(@, jumps(c, Len(current_chunk(c).code), start))]

\* patch_jump that takes the index of the jump for the index after it
patch_jump_from_jump(c, offset) ==
  LET new_jump == Len(current_chunk(c).code) - offset
      opcode == At(current_chunk(c).code, offset)
  IN [c EXCEPT !.contexts[Len(c.contexts)].function.chunk.code[offset + 1] =
                 IF opcode.op = "Jump" THEN OpJump(opcode.direction, new_jump)
                 ELSE Op1("JumpIfFalse", new_jump),
               !.trace = Append(@, jumps(c, offset, Len(current_chunk(c).code)))]

\* Compiler::patch_jump : rewrites the jump at index offset
patch_jump(c, offset) ==
  LET new_jump == Len(current_chunk(c).code) - 1 - offset
      opcode == At(current_chunk(c).code, offset)
  IN [c EXCEPT !.contexts[Len(c.contexts)].function.chunk.code[offset + 1] =
                 IF opcode.op = "Jump" THEN OpJump(opcode.direction, new_jump)
                 ELSE Op1("JumpIfFalse", new_jump),
               !.trace = Append(@, jumps(c, offset, Len(current_chunk(c).code)))]

\* Compiler::begin_scope
begin_scope(c) == [c EXCEPT !.contexts[Len(c.contexts)].scope_depth = @ + 1]

RECURSIVE end_scope_locals(_)
\* the loop of end_scope, the scope depth already lowered
end_scope_locals(c) ==
  LET i == Len(locals(c))
  IN IF i = 0 THEN c
     ELSE IF locals(c)[i].depth > scope_depth(c)
          THEN LET emitted == emit_opcode(c, IF locals(c)[i].is_captured
                                             THEN Op("CloseUpvalue") ELSE Op("Pop"))
               IN end_scope_locals(
                    [emitted EXCEPT !.contexts[Len(c.contexts)].locals = Front(@)])
          ELSE c

\* Compiler::end_scope
end_scope(c) ==
  end_scope_locals([c EXCEPT !.contexts[Len(c.contexts)].scope_depth = @ - 1])

\* Compiler::mark_initialized
mark_initialized(c) ==
  IF scope_depth(c) # 0
  THEN [c EXCEPT !.contexts[Len(c.contexts)].locals[Len(locals(c))].depth = scope_depth(c)]
  ELSE c

\* Compiler::define_variable
define_variable(c, global) ==
  IF scope_depth(c) > 0 THEN mark_initialized(c)
  ELSE emit_opcode(c, Op1("DefineGlobal", global))

\* Compiler::identifier_constant
identifier_constant(c, lexeme) == make_constant(c, String(lexeme))

\* history: one more event
note(c, event) == [c EXCEPT !.trace = Append(@, event)]

\* the local that `for local in locals.iter().rev()` of declare_variable stops at
outer_local(c, i) == locals(c)[i].depth # -1 /\ locals(c)[i].depth < scope_depth(c)

\* history of a declaration: was a local of that name declared in this very
\* scope / in an enclosing scope of the context, and what was done
declared(c, name, name_exists) ==
  [ev |-> "declare", name |-> name, depth |-> scope_depth(c),
   same |-> \E i \in 1..Len(locals(c)) :
              locals(c)[i].name = name /\ locals(c)[i].scope = scope_depth(c),
   outer |-> \E i \in 1..Len(locals(c)) :
               locals(c)[i].name = name /\ locals(c)[i].scope < scope_depth(c),
   rejected |-> name_exists,
   before |-> Len(locals(c))]

\* declare_variable that never finds the name
declare_variable_unchecked(c, name) ==
  IF scope_depth(c) > 0
  THEN note([c EXCEPT !.contexts[Len(c.contexts)].locals =
                        Append(@, MkLocal(name, -1, scope_depth(c)))],
            declared(c, name, FALSE))
  ELSE c

\* Compiler::declare_variable (bobascript/src/compiler/compiler.rs), name being
\* the lexeme of parser.previous
declare_variable(c, name) ==
  IF scope_depth(c) > 0
  THEN LET name_exists ==
             \E i \in 1..Len(locals(c)) :
               /\ locals(c)[i].name = name
               /\ \A j \in i..Len(locals(c)) : ~outer_local(c, j)
       IN note(IF name_exists THEN set_error(c, VariableAlreadyExists(name))
               ELSE [c EXCEPT !.contexts[Len(c.contexts)].locals =
                                Append(@, MkLocal(name, -1, scope_depth(c)))],
               declared(c, name, name_exists))
  ELSE c

\* Compiler::declare_variable of the AST walker's revision
\* (crates/bobascript/src/compiler/compiler.rs): .filter(..).find(..)
declare_variable_ast(c, name) ==
  IF scope_depth(c) > 0
  THEN LET name_exists ==
             \E i \in 1..Len(locals(c)) : outer_local(c, i) /\ locals(c)[i].name = name
       IN note(IF name_exists THEN set_error(c, VariableAlreadyExists(name))
               ELSE [c EXCEPT !.contexts[Len(c.contexts)].locals =
                                Append(@, MkLocal(name, -1, scope_depth(c)))],
               declared(c, name, name_exists))
  ELSE c

\* resolve_local that finds a local as soon as it is declared
context_resolve_local_declared(context, name) ==
  LET found == { i \in 1..Len(context.locals) : context.locals[i].name = name }
  IN IF found = {} THEN [r |-> -1, err |-> NoError]
     ELSE [r |-> (CHOOSE i \in found : \A j \in found : j <= i) - 1, err |-> NoError]

\* CompileContext::resolve_local : [r |-> index or -1 (None), err |-> the Err]
context_resolve_local(context, name) ==
  LET found == { i \in 1..Len(context.locals) : context.locals[i].name = name }
  IN IF found = {} THEN [r |-> -1, err |-> NoError]
     ELSE LET i == CHOOSE i \in found : \A j \in found : j <= i
          IN IF context.locals[i].depth = -1
             THEN [r |-> -1, err |-> VariableDoesNotExist(context.locals[i].name)]
             ELSE [r |-> i - 1, err |-> NoError]

\* Compiler::resolve_local
resolve_local(c, name, context_idx) ==
  IF ~has_context(c, context_idx) THEN [c |-> c, r |-> -1]
  ELSE LET local == context_resolve_local(c.contexts[nth_back(c, context_idx)], name)
       IN IF local.err # NoError THEN [c |-> set_error(c, local.err), r |-> -1]
          ELSE [c |-> c, r |-> local.r]

\* add_upvalue that always pushes a new descriptor
add_upvalue_push(c, index, is_local, context_idx) ==
  LET k == nth_back(c, context_idx)
  IN [c |-> [c EXCEPT !.contexts[k].upvalues =
                        Append(@, IF is_local THEN Local(index) ELSE Upvalue(index))],
      r |-> Len(c.contexts[k].upvalues)]

\* Compiler::add_upvalue
add_upvalue(c, index, is_local, context_idx) ==
  LET k == nth_back(c, context_idx)
      descs == c.contexts[k].upvalues
      same == { i \in 1..Len(descs) : descs[i].is_local /\ descs[i].index = index }
  IN IF same # {} THEN [c |-> c, r |-> (CHOOSE i \in same : \A j \in same : i <= j) - 1]
     ELSE [c |-> [c EXCEPT !.contexts[k].upvalues =
                             Append(@, IF is_local THEN Local(index) ELSE Upvalue(index))],
           r |-> Len(descs)]

RECURSIVE resolve_upvalue(_, _, _)
\* Compiler::resolve_upvalue
resolve_upvalue(c, name, context_idx) ==
  LET local == resolve_local(c, name, context_idx + 1)
  IN IF local.r # -1
     THEN add_upvalue(
            [local.c EXCEPT !.contexts[nth_back(c, context_idx + 1)]
                              .locals[local.r + 1].is_captured = TRUE],
            local.r, TRUE, context_idx)
     ELSE IF context_idx + 1 >= Len(c.contexts) THEN [c |-> local.c, r |-> -1]
     ELSE LET upvalue == resolve_upvalue(local.c, name, context_idx + 1)
          IN IF upvalue.r # -1 THEN add_upvalue(upvalue.c, upvalue.r, FALSE, context_idx)
             ELSE upvalue

\* history of the resolution of an identifier: is an initialised local of
\* that name in the current context / in an enclosing one, and the Get/Set
\* pair that was chosen
resolved(c, name, kind, idx) ==
  [ev |-> "resolve", name |-> name, kind |-> kind, idx |-> idx,
   function |-> current_context(c).function.name,
   local |-> \E i \in 1..Len(locals(c)) :
               locals(c)[i].name = name /\ locals(c)[i].depth # -1,
   local_idx |-> LET found == { i \in 1..Len(locals(c)) : locals(c)[i].name = name }
                 IN IF found = {} THEN -1 ELSE (CHOOSE i \in found : \A j \in found : j <= i) - 1,
   enclosing |-> \E k \in 1..(Len(c.contexts) - 1) :
                   \E i \in 1..Len(c.contexts[k].locals) :
                     c.contexts[k].locals[i].name = name /\ c.contexts[k].locals[i].depth # -1]

\* named_variable that looks for a global first
resolve_variable_global_first(c, lexeme) ==
  LET global == identifier_constant(c, lexeme)
  IN [c |-> note(global.c, resolved(c, lexeme, "Global", global.r)),
      get_op |-> Op1("GetGlobal", global.r), set_op |-> Op1("SetGlobal", global.r)]

\* the choice of (get_op, set_op) of Compiler::named_variable
resolve_variable(c, lexeme) ==
  LET local == resolve_local(c, lexeme, 0)
      upvalue == resolve_upvalue(local.c, lexeme, 0)
      global == identifier_constant(upvalue.c, lexeme)
  IN IF local.r # -1
     THEN [c |-> note(local.c, resolved(c, lexeme, "Local", local.r)),
           get_op |-> Op1("GetLocal", local.r), set_op |-> Op1("SetLocal", local.r)]
     ELSE IF upvalue.r # -1
     THEN [c |-> note(upvalue.c, resolved(c, lexeme, "Upvalue", upvalue.r)),
           get_op |-> Op1("GetUpvalue", upvalue.r), set_op |-> Op1("SetUpvalue", upvalue.r)]
     ELSE [c |-> note(global.c, resolved(c, lexeme, "Global", global.r)),
           get_op |-> Op1("GetGlobal", global.r), set_op |-> Op1("SetGlobal", global.r)]


----------------------------------------------------------------------------
(* The AST (crates/bobascript-parser/src/ast.rs).  A node is a record      *)
(* whose k is the variant; an Option that is None is the record None.      *)

None == [k |-> "None"]
Stmt_Function(ident, args, block) ==
  [k |-> "Function", ident |-> ident, args |-> args, block |-> block]
Stmt_Let(ident, expr) == [k |-> "Let", ident |-> ident, expr |-> expr]
Stmt_Return(expr) == [k |-> "Return", expr |-> expr]
Stmt_Expression(expr) == [k |-> "Expression", expr |-> expr]
Expr_Log(expr) == [k |-> "Log", expr |-> expr]
Expr_Block(stmts, expr) == [k |-> "Block", stmts |-> stmts, expr |-> expr]
Expr_If(condition, true_branch, false_branch) ==
  [k |-> "If", condition |-> condition, true_branch |-> true_branch,
   false_branch |-> false_branch]
Expr_While(condition, stmts) == [k |-> "While", condition |-> condition, stmts |-> stmts]
Expr_Assign(name, op, expr) == [k |-> "Assign", name |-> name, op |-> op, expr |-> expr]
Expr_Binary(lhs, op, rhs) == [k |-> "Binary", lhs |-> lhs, op |-> op, rhs |-> rhs]
Expr_Unary(op, expr) == [k |-> "Unary", op |-> op, expr |-> expr]
Expr_Call(function, args) == [k |-> "Call", function |-> function, args |-> args]
Expr_Constant(constant) == [k |-> "Constant", constant |-> constant]
Constant_True == [c |-> "True"]
Constant_False == [c |-> "False"]
Constant_Ident(ident) == [c |-> "Ident", ident |-> ident]
Constant_Number(num) == [c |-> "Number", num |-> num]
Constant_String(str) == [c |-> "String", str |-> str]
Constant_Tuple(tuple) == [c |-> "Tuple", tuple |-> tuple]

\* the string literals of the programs, without their quotation marks
StringLiterals ==
  {"a", "b", "c", "value", "inner", "outer", "1", "rhs", "global", "true", "false", "",
   "x", "y", "z", "t", "d", "p", "q", "body", "callee",
   "before", "after", "arg"}
quoted(s) == "\"" \o s \o "\""
\* str[1..(str.len() - 1)]
strip_quotes(str) == CHOOSE s \in StringLiterals : quoted(s) = str

----------------------------------------------------------------------------
(* The AST walker (crates/bobascript/src/compiler/expressions.rs and       *)
(* statements.rs).  Where the token-driven compiler has a method of the    *)
(* same name, the walker's is written with _ast.                           *)

RECURSIVE expression_ast(_, _), statement_ast(_, _), statements_ast(_, _, _),
          expressions_ast(_, _, _, _), block_expr(_, _, _), if_expr_ast(_, _, _, _),
          function_ast(_, _, _, _, _)

\* the calls self.expression(..) and self.statement(..) in the body of a method
RECURSIVE self_ast(_, _)

\* Compiler::end_compiler
end_compiler(c) ==
  LET returned == emit_opcode(c, Op("Return"))
  IN rc_new(pop_context(returned), current_context(returned).function)

\* `for stmt in stmts { self.statement(stmt) }`, from the i-th statement on
statements_ast(c, stmts, i) ==
  IF i > Len(stmts) THEN c
  ELSE LET done == self_ast("statement", << c, stmts[i] >>)
       IN IF (done = done) THEN self_ast("statements_ast", << done, stmts, i + 1 >>) ELSE done

\* `for expr in exprs { self.expression(expr) }`, for the expressions from
\* the lo-th to the hi-th, in their order: the first half of them, then the
\* rest (so that a list of 256 expressions is 8 calls deep, and not 256)
expressions_ast(c, exprs, lo, hi) ==
  IF lo > hi THEN c
  ELSE IF lo = hi THEN self_ast("expression", << c, exprs[lo] >>)
  ELSE LET mid == (lo + hi) \div 2
           done == self_ast("expressions_ast", << c, exprs, lo, mid >>)
       IN IF (done = done) THEN self_ast("expressions_ast", << done, exprs, mid + 1, hi >>)
          ELSE done

\* Compiler::with_context(fn_type, f) : the context f has filled, popped
with_context(c, fn_type, f(_)) ==
  LET filled == f(push_context(c, fn_type))
  IN IF (filled = filled) THEN [c |-> pop_context(filled), r |-> current_context(filled)]
     ELSE [c |-> filled, r |-> current_context(filled)]

\* Compiler::block(stmts, expr)
block_ast(c, stmts, expr) ==
  LET body == self_ast("statements_ast", << c, stmts, 1 >>)
  IN IF ~(body = body) THEN body
     ELSE IF expr.k = "None" THEN emit_opcode(body, Op1("Tuple", 0))
     ELSE self_ast("expression", << body, expr >>)

\* the Closure instruction for a finished context
emit_closure(c, context) ==
  LET function == rc_new(c, context.function)
      idx == make_constant(function.c, Function(function.r))
  IN emit_opcode(idx.c, OpClosure(idx.r, context.upvalues))

log_expr_ast(c, expr) ==
  LET value == self_ast("expression", << c, expr >>)
  IN IF (value = value) THEN emit_opcode(value, Op("Log")) ELSE value

block_expr(c, stmts, expr) ==
  LET context == with_context(c, "Block",
                   LAMBDA b : LET body == self_ast("block_ast", << begin_scope(b), stmts, expr >>)
                              IN IF (body = body) THEN emit_opcode(body, Op("Return"))
                                 ELSE body)
  IN IF (context.c = context.c) THEN emit_opcode(emit_closure(context.c, context.r), Op1("Call", 0))
     ELSE context.c

if_expr_ast(c, condition, true_branch, false_branch) ==
  LET tested == self_ast("expression", << c, condition >>)
      then_jump == emit_opcode_idx(tested, Op1("JumpIfFalse", 0))
      then_clause == self_ast("expression", << emit_opcode(then_jump.c, Op("Pop")), true_branch >>)
      else_jump == emit_opcode_idx(then_clause, OpJump("Forwards", 0))
      patched == emit_opcode(patch_jump(else_jump.c, then_jump.r), Op("Pop"))
      else_clause ==
        CASE false_branch.k = "None" -> patched
          [] false_branch.k = "Block" -> self_ast("block_expr", << patched, false_branch.stmts, false_branch.expr >>)
          [] false_branch.k = "If" ->
               self_ast("if_expr_ast", << patched, false_branch.condition, false_branch.true_branch,
                           false_branch.false_branch >>)
          [] OTHER -> set_error(patched, UndefinedBehavior("else"))
  IN IF (tested = tested) /\ (then_clause = then_clause) /\ (else_clause = else_clause)
     THEN patch_jump(else_clause, else_jump.r) ELSE else_clause

while_expr_ast(c, condition, stmts) ==
  LET loop_start == Len(current_chunk(c).code)
      tested == self_ast("expression", << c, condition >>)
      exit_jump == emit_opcode_idx(tested, Op1("JumpIfFalse", 0))
      body == self_ast("statements_ast", << emit_opcode(exit_jump.c, Op("Pop")), stmts, 1 >>)
      looped == patch_jump(emit_loop(body, loop_start), exit_jump.r)
  IN IF (tested = tested) /\ (body = body)
     THEN emit_opcode(emit_opcode(looped, Op("Pop")), Op1("Tuple", 0)) ELSE body

\* the arithmetic OpCode of a compound assignment operator
ArithmeticAssign ==
  [AddAssign |-> "Add", SubtractAssign |-> "Subtract", MultiplyAssign |-> "Multiply",
   DivideAssign |-> "Divide", ExponentAssign |-> "Exponent"]

\* get_op; JumpIfFalse over a Jump to the end; Pop; expr
or_pattern(c, expr) ==
  LET else_jump == emit_opcode_idx(c, Op1("JumpIfFalse", 0))
      end_jump == emit_opcode_idx(else_jump.c, OpJump("Forwards", 0))
      rhs == self_ast("expression", << emit_opcode(patch_jump(end_jump.c, else_jump.r), Op("Pop")), expr >>)
  IN IF (rhs = rhs) THEN patch_jump(rhs, end_jump.r) ELSE rhs

\* get_op; JumpIfFalse to the end; Pop; expr
and_pattern(c, expr) ==
  LET end_jump == emit_opcode_idx(c, Op1("JumpIfFalse", 0))
      rhs == self_ast("expression", << emit_opcode(end_jump.c, Op("Pop")), expr >>)
  IN IF (rhs = rhs) THEN patch_jump(rhs, end_jump.r) ELSE rhs

assign_expr(c, name, op, expr) ==
  IF name.k = "Constant" /\ name.constant.c = "Ident"
  THEN LET var == self_ast("resolve_variable", << c, name.constant.ident >>)
           value == self_ast("expression", << IF op = "Assign" THEN var.c
                                   ELSE emit_opcode(var.c, var.get_op), expr >>)
       IN CASE op = "Assign" -> IF (value = value) THEN emit_opcode(value, var.set_op) ELSE value
            [] op \in DOMAIN ArithmeticAssign ->
                 IF ~(value = value) THEN value
                 ELSE emit_opcode(emit_opcode(value, Op(ArithmeticAssign[op])), var.set_op)
            [] op = "OrAssign" -> self_ast("or_pattern", << emit_opcode(var.c, var.get_op), expr >>)
            [] op = "AndAssign" -> self_ast("and_pattern", << emit_opcode(var.c, var.get_op), expr >>)
  ELSE set_error(c, InvalidAssignmentTarget)

\* the OpCodes of the binary operators that evaluate both operands
BinaryOpcodes ==
  [Equal |-> << "Equal" >>, NotEqual |-> << "Equal", "Not" >>,
   GreaterThan |-> << "GreaterThan" >>, GreaterEqual |-> << "LessThan", "Not" >>,
   LessThan |-> << "LessThan" >>, LessEqual |-> << "GreaterThan", "Not" >>,
   Add |-> << "Add" >>, Subtract |-> << "Subtract" >>, Multiply |-> << "Multiply" >>,
   Divide |-> << "Divide" >>, Exponent |-> << "Exponent" >>]

binary_expr(c, lhs, op, rhs) ==
  LET left == self_ast("expression", << c, lhs >>)
      operands == self_ast("expression", << left, rhs >>)
  IN
  IF ~(left = left) THEN left ELSE
  CASE op = "Or" -> self_ast("or_pattern", << left, rhs >>)
    [] op = "And" -> self_ast("and_pattern", << left, rhs >>)
    [] OTHER ->
         IF ~(operands = operands) THEN operands ELSE
            IF Len(BinaryOpcodes[op]) = 1 THEN emit_opcode(operands, Op(BinaryOpcodes[op][1]))
            ELSE emit_opcode(emit_opcode(operands, Op(BinaryOpcodes[op][1])),
                             Op(BinaryOpcodes[op][2]))

unary_expr(c, op, expr) ==
  LET operand == self_ast("expression", << c, expr >>)
  IN IF (operand = operand) THEN emit_opcode(operand, Op(op)) ELSE operand

call_expr(c, function, args) ==
  LET callee == self_ast("expression", << c, function >>)
      arguments == self_ast("expressions_ast", << callee, args, 1, Len(args) >>)
      counted == IF Len(args) >= 255 /\ Len(args) > 0
                 THEN set_error(arguments, TooManyArguments) ELSE arguments
  IN IF ~((callee = callee) /\ (arguments = arguments)) THEN arguments ELSE
     \* args.len().try_into().unwrap() : a u8, or the panic of unwrap
     IF Len(args) > 255 THEN unwrap_failed(counted)
     ELSE emit_opcode(counted, Op1("Call", Len(args)))

constant_expr(c, constant) ==
  CASE constant.c = "True" -> emit_opcode(c, Op("True"))
    [] constant.c = "False" -> emit_opcode(c, Op("False"))
    [] constant.c = "Ident" ->
         LET var == self_ast("resolve_variable", << c, constant.ident >>) IN emit_opcode(var.c, var.get_op)
    [] constant.c = "Number" ->
         LET num_idx == make_constant(c, Number(constant.num))
         IN emit_opcode(num_idx.c, Op1("Constant", num_idx.r))
    [] constant.c = "String" ->
         LET string_idx == make_constant(c, String(strip_quotes(constant.str)))
         IN emit_opcode(string_idx.c, Op1("Constant", string_idx.r))
    [] constant.c = "Tuple" ->
         LET elements == self_ast("expressions_ast", << c, constant.tuple, 1, Len(constant.tuple) >>)
         IN IF (elements = elements) THEN emit_opcode(elements, Op1("Tuple", Len(constant.tuple)))
            ELSE elements

expression_ast(c, expr) ==
  IF ~has_context(c, 0) THEN c ELSE
  CASE expr.k = "Log" -> self_ast("log_expr_ast", << c, expr.expr >>)
    [] expr.k = "Block" -> self_ast("block_expr", << c, expr.stmts, expr.expr >>)
    [] expr.k = "If" -> self_ast("if_expr_ast", << c, expr.condition, expr.true_branch, expr.false_branch >>)
    [] expr.k = "While" -> self_ast("while_expr_ast", << c, expr.condition, expr.stmts >>)
    [] expr.k = "Assign" -> self_ast("assign_expr", << c, expr.name, expr.op, expr.expr >>)
    [] expr.k = "Binary" -> self_ast("binary_expr", << c, expr.lhs, expr.op, expr.rhs >>)
    [] expr.k = "Unary" -> self_ast("unary_expr", << c, expr.op, expr.expr >>)
    [] expr.k = "Call" -> self_ast("call_expr", << c, expr.function, expr.args >>)
    [] expr.k = "Constant" -> self_ast("constant_expr", << c, expr.constant >>)

\* Compiler::declare_variable(ident) of statements.rs: the constant of a
\* global's name, 0 for a local
declare_ast(c, ident) ==
  LET declared_c == declare_variable_ast(c, ident)
  IN IF scope_depth(declared_c) > 0 THEN [c |-> declared_c, r |-> 0]
     ELSE identifier_constant(declared_c, ident)

RECURSIVE parameters_ast(_, _, _)
\* the parameters of a function, from the i-th on
parameters_ast(c, args, i) ==
  IF i > Len(args) THEN c
  ELSE LET counted == [c EXCEPT !.contexts[Len(c.contexts)].function.arity = @ + 1]
           idx == declare_ast(counted, args[i])
       IN parameters_ast(define_variable(idx.c, idx.r), args, i + 1)

\* Compiler::function(fn_type, ident, args, block)
function_ast(c, fn_type, ident, args, block) ==
  LET context ==
        with_context(c, fn_type,
          LAMBDA f :
            LET named == [f EXCEPT !.contexts[Len(f.contexts)].function.name = ident]
                params == parameters_ast(begin_scope(named), args, 1)
                body == IF block.k = "Block" THEN self_ast("block_ast", << params, block.stmts, block.expr >>)
                        ELSE self_ast("expression", << params, block >>)
            IN IF (body = body) THEN emit_opcode(body, Op("Return")) ELSE body)
  IN IF (context.c = context.c) THEN emit_closure(context.c, context.r) ELSE context.c

function_stmt(c, ident, args, block) ==
  LET global_idx == declare_ast(c, ident)
      closure == self_ast("function_ast", << mark_initialized(global_idx.c), "Function", ident, args, block >>)
  IN IF (closure = closure) THEN define_variable(closure, global_idx.r) ELSE closure

\* let_stmt that initialises the variable before its initialiser is compiled
let_stmt_early(c, ident, expr) ==
  LET global == declare_ast(c, ident)
      defined == define_variable(global.c, global.r)
  IN IF expr.k # "None" THEN self_ast("expression", << defined, expr >>)
     ELSE emit_opcode(defined, Op1("Tuple", 0))

let_stmt(c, ident, expr) ==
  LET global == declare_ast(c, ident)
      value == IF expr.k # "None" THEN self_ast("expression", << global.c, expr >>)
               ELSE emit_opcode(global.c, Op1("Tuple", 0))
  IN IF (value = value) THEN define_variable(value, global.r) ELSE value

\* return_stmt that does not look at the type of the context
return_stmt_anywhere(c, expr) ==
  LET value == IF expr.k # "None" THEN self_ast("expression", << c, expr >>) ELSE c
  IN IF (value = value) THEN emit_opcode(value, Op("Return")) ELSE value

return_stmt_ast(c, expr) ==
  LET checked == IF current_context(c).fn_type = "TopLevel"
                 THEN set_error(c, TopLevelReturn) ELSE c
      value == IF expr.k # "None" THEN self_ast("expression", << checked, expr >>) ELSE checked
  IN IF (value = value) THEN emit_opcode(value, Op("Return")) ELSE value

expression_stmt(c, expr) ==
  LET value == self_ast("expression", << c, expr >>)
  IN IF (value = value) THEN emit_opcode(value, Op("Pop")) ELSE value

statement_ast(c, stmt) ==
  IF ~has_context(c, 0) THEN c ELSE
  CASE stmt.k = "Function" -> self_ast("function_stmt", << c, stmt.ident, stmt.args, stmt.block >>)
    [] stmt.k = "Let" -> self_ast("let_stmt", << c, stmt.ident, stmt.expr >>)
    [] stmt.k = "Return" -> self_ast("return_stmt_ast", << c, stmt.expr >>)
    [] stmt.k = "Expression" -> self_ast("expression_stmt", << c, stmt.expr >>)

\* what compile / compile_expr give back: the CompileResult, with the
\* Functions allocated and the history
compiled(c, function) ==
  [result |-> IF c.unwound THEN [k |-> "Panic"]
              ELSE IF c.parser.error = NoError THEN Ok(function) ELSE Err(c.parser.error),
   fns |-> c.fns, trace |-> c.trace]

\* the end of compile_expr: `let function = self.end_compiler();` and the
\* Ok(function), or the Err of the parser, that is returned
finish_expr(parsed) ==
  LET function == end_compiler(parsed) IN compiled(function.c, function.r)

\* the end of a compile that leaves out the unit
finish_script_without_unit(parsed) ==
  IF (parsed = parsed) THEN finish_expr(parsed) ELSE compiled(parsed, "")

\* the end of compile: the unit `()` a script returns, then as compile_expr
finish_script(parsed) ==
  IF (parsed = parsed) THEN finish_expr(emit_opcode(parsed, Op1("Tuple", 0)))
  ELSE compiled(parsed, "")

\* self.method(args) for the methods through which the walker enters itself
\* again
self_ast(method, args) ==
  CASE method = "expression" -> expression_ast(args[1], args[2])
    [] method = "statement" -> statement_ast(args[1], args[2])
    [] method = "and_pattern" -> and_pattern(args[1], args[2])
    [] method = "assign_expr" -> assign_expr(args[1], args[2], args[3], args[4])
    [] method = "binary_expr" -> binary_expr(args[1], args[2], args[3], args[4])
    [] method = "block_ast" -> block_ast(args[1], args[2], args[3])
    [] method = "block_expr" -> block_expr(args[1], args[2], args[3])
    [] method = "call_expr" -> call_expr(args[1], args[2], args[3])
    [] method = "constant_expr" -> constant_expr(args[1], args[2])
    [] method = "expression_stmt" -> expression_stmt(args[1], args[2])
    [] method = "expressions_ast" -> expressions_ast(args[1], args[2], args[3], args[4])
    [] method = "function_ast" -> function_ast(args[1], args[2], args[3], args[4], args[5])
    [] method = "function_stmt" -> function_stmt(args[1], args[2], args[3], args[4])
    [] method = "if_expr_ast" -> if_expr_ast(args[1], args[2], args[3], args[4])
    [] method = "let_stmt" -> let_stmt(args[1], args[2], args[3])
    [] method = "log_expr_ast" -> log_expr_ast(args[1], args[2])
    [] method = "or_pattern" -> or_pattern(args[1], args[2])
    [] method = "return_stmt_ast" -> return_stmt_ast(args[1], args[2])
    [] method = "statements_ast" -> statements_ast(args[1], args[2], args[3])
    [] method = "unary_expr" -> unary_expr(args[1], args[2], args[3])
    [] method = "while_expr_ast" -> while_expr_ast(args[1], args[2], args[3])
    [] method = "resolve_variable" -> resolve_variable(args[1], args[2])

\* Compiler::compile(ast)
compile_ast(ast, unit) ==
  finish_script(self_ast("statements_ast", << NewCompiler(<<>>, unit), ast, 1 >>))

\* Compiler::compile_expr(expr)
compile_expr_ast(expr, unit) ==
  finish_expr(self_ast("expression", << NewCompiler(<<>>, unit), expr >>))

----------------------------------------------------------------------------
(* The token-driven compiler (bobascript/src/compiler/compiler.rs) and its *)
(* Parser (compiler/parser.rs).  The scanner is the sequence of tokens it  *)
(* makes of the text, followed by EOF for ever.                            *)

EOF == Token("EOF", "")

\* Scanner::scan_token (the texts have no character the scanner rejects)
scan_token(parser) ==
  IF parser.pos < Len(parser.tokens) THEN parser.tokens[parser.pos + 1] ELSE EOF

current_type(c) == c.parser.current.type
previous_type(c) == c.parser.previous.type

\* Parser::advance
advance(c) ==
  [c EXCEPT !.parser.previous = IF c.parser.current # NoToken THEN c.parser.current ELSE @,
            !.parser.current = scan_token(c.parser),
            !.parser.pos = @ + 1]

\* Parser::consume
consume(c, token_type, err) ==
  IF current_type(c) = token_type THEN advance(c) ELSE set_error(c, err)

\* Parser::is_panicking
is_panicking(c) == c.parser.panic_mode

RECURSIVE synchronize_loop(_)
\* the loop of Parser::synchronize
synchronize_loop(c) ==
  IF previous_type(c) = "Semicolon" THEN c
  ELSE IF current_type(c) \in {"EOF", "Class", "Let", "Const", "For", "If", "While",
                               "Return", "Break"}
  THEN c
  ELSE synchronize_loop(advance(c))

\* Parser::synchronize
synchronize(c) == synchronize_loop([c EXCEPT !.parser.panic_mode = FALSE])

\* rules::Precedence, as usize
Precedence ==
  [None |-> 0, Assignment |-> 1, Or |-> 2, And |-> 3, Equality |-> 4, Comparison |-> 5,
   Term |-> 6, Factor |-> 7, Unary |-> 8, Call |-> 9, Primary |-> 10]

ParseRule(prefix, infix, precedence) ==
  [prefix |-> prefix, infix |-> infix, precedence |-> Precedence[precedence]]

\* get_rule : the methods by their names, "None" for None
get_rule(token_type) ==
  CASE token_type = "LeftParen" -> ParseRule("grouping", "call", "Call")
    [] token_type = "LeftBrace" -> ParseRule("block", "None", "None")
    [] token_type = "Asterisk" -> ParseRule("None", "binary", "Factor")
    [] token_type = "Minus" -> ParseRule("unary", "binary", "Term")
    [] token_type = "Plus" -> ParseRule("None", "binary", "Term")
    [] token_type = "Slash" -> ParseRule("None", "binary", "Factor")
    [] token_type = "Not" -> ParseRule("unary", "None", "None")
    [] token_type \in {"NotEqual", "Equal"} -> ParseRule("None", "binary", "Equality")
    [] token_type \in {"GreaterThan", "GreaterEqual", "LessThan", "LessEqual"} ->
         ParseRule("None", "binary", "Comparison")
    [] token_type = "Identifier" -> ParseRule("variable", "None", "None")
    [] token_type = "String" -> ParseRule("string", "None", "None")
    [] token_type = "Number" -> ParseRule("number", "None", "None")
    [] token_type = "And" -> ParseRule("None", "and", "And")
    [] token_type \in {"False", "True"} -> ParseRule("literal", "None", "None")
    [] token_type = "If" -> ParseRule("if_expr", "None", "None")
    [] token_type = "Log" -> ParseRule("log_expr", "None", "None")
    [] token_type = "Or" -> ParseRule("None", "or", "Or")
    [] token_type = "While" -> ParseRule("while_expr", "None", "None")
    [] OTHER -> ParseRule("None", "None", "None")

\* the largest number written in a text
MaxNumber == 9

\* num.parse::<f64>()
parse_f64(num) == CHOOSE n \in 0..MaxNumber : ToString(n) = num

RECURSIVE parse_precedence(_, _), infix_loop(_, _, _), statement(_), raw_block_loop(_),
          argument_list_loop(_, _), argument_list_turns(_, _), tuple_loop(_, _), parameters(_)

\* the calls self.expression(), self.statement(), self.parse_precedence(..)
\* and self.block() in the body of a method
RECURSIVE self(_, _)

expression(c) == self("parse_precedence", << c, Precedence.Assignment >>)

\* Compiler::parse_variable
parse_variable(c, err) ==
  LET declared_c == declare_variable(consume(c, "Identifier", err),
                                     consume(c, "Identifier", err).parser.previous.lexeme)
  IN IF scope_depth(declared_c) > 0 THEN [c |-> declared_c, r |-> 0]
     ELSE identifier_constant(declared_c, declared_c.parser.previous.lexeme)

\* the loop of raw_block
raw_block_loop(c) ==
  IF current_type(c) \in {"RightBrace", "EOF"} THEN c
  ELSE LET done == self("statement", << c >>) IN IF (done = done) THEN self("raw_block_loop", << done >>) ELSE done

\* Compiler::raw_block
raw_block(c) ==
  LET body == self("raw_block_loop", << c >>)
  IN IF ~(body = body) THEN body ELSE
     consume(IF previous_type(body) \in {"Semicolon", "LeftBrace"}
             THEN emit_opcode(body, Op1("Tuple", 0)) ELSE body,
             "RightBrace", Expected("'}' after block"))

\* Compiler::block
block(c) ==
  LET body == self("raw_block", << begin_scope(c) >>) IN IF (body = body) THEN end_scope(body) ELSE body

\* the loop over the parameters of Compiler::function (arity is a u8)
parameters(c) ==
  LET counted == IF current_context(c).function.arity = 255 THEN c
                 ELSE [c EXCEPT !.contexts[Len(c.contexts)].function.arity = @ + 1]
      idx == parse_variable(counted, Expected("parameter name"))
      defined == define_variable(idx.c, idx.r)
  IN IF current_type(defined) # "Comma" THEN defined ELSE self("parameters", << advance(defined) >>)

\* Compiler::function
function_tok(c, fn_type) ==
  LET pushed == push_context(c, fn_type)
      named == IF fn_type # "TopLevel"
               THEN [pushed EXCEPT !.contexts[Len(pushed.contexts)].function.name =
                                     c.parser.previous.lexeme]
               ELSE pushed
      opened == consume(begin_scope(named), "LeftParen", Expected("'(' after function name"))
      params == IF current_type(opened) # "RightParen" THEN self("parameters", << opened >>) ELSE opened
      body == self("raw_block", << consume(consume(params, "RightParen", Expected("')' after parameters")),
                                "LeftBrace", Expected("block after parameters")) >>)
      returned == emit_opcode(body, Op("Return"))
  IN IF ~(body = body) THEN body
     ELSE emit_closure(pop_context(returned), current_context(returned))

\* Compiler::fn_declaration
fn_declaration(c) ==
  LET global_idx == parse_variable(c, Expected("function name"))
      closure == self("function_tok", << mark_initialized(global_idx.c), "Function" >>)
  IN IF (closure = closure) THEN define_variable(closure, global_idx.r) ELSE closure

\* Compiler::declaration
declaration(c) ==
  LET global == parse_variable(c, Expected("variable name"))
      value == IF current_type(global.c) = "Assign" THEN self("expression", << advance(global.c) >>)
               ELSE emit_opcode(global.c, Op1("Tuple", 0))
  IN IF ~(value = value) THEN value ELSE
     define_variable(consume(value, "Semicolon", Expected("';' after let statement")),
                     global.r)

\* Compiler::return_stmt
return_stmt(c) ==
  LET checked == IF current_context(c).fn_type = "TopLevel"
                 THEN set_error(c, TopLevelReturn) ELSE c
  IN IF current_type(checked) = "Semicolon" THEN emit_opcode(advance(checked), Op("Return"))
     ELSE LET value == self("expression", << checked >>)
          IN IF ~(value = value) THEN value ELSE
             emit_opcode(consume(value, "Semicolon", Expected("';' after return value")),
                         Op("Return"))

\* Compiler::statement
statement(c) ==
  LET e == CASE current_type(c) = "Fn" -> self("fn_declaration", << advance(c) >>)
             [] current_type(c) = "Let" -> self("declaration", << advance(c) >>)
             [] current_type(c) = "Return" -> self("return_stmt", << advance(c) >>)
             [] OTHER -> self("expression", << c >>)
      done ==
        IF current_type(c) \in {"Fn", "Let", "Return"} THEN e
        ELSE IF current_type(e) = "RightBrace" /\ scope_depth(e) > 0 THEN e
        ELSE IF previous_type(e) = "RightBrace" /\ current_type(e) # "Semicolon"
        THEN emit_opcode(e, Op("Pop"))
        ELSE IF current_type(e) = "Semicolon" THEN emit_opcode(advance(e), Op("Pop"))
        ELSE set_error(e, Expected("';' after expression"))
  IN IF ~(e = e) THEN e ELSE IF is_panicking(done) THEN synchronize(done) ELSE done

log_expr(c) ==
  LET value == self("expression", << c >>) IN IF (value = value) THEN emit_opcode(value, Op("Log")) ELSE value

and(c) ==
  LET end_jump == emit_opcode_idx(c, Op1("JumpIfFalse", 0))
      rhs == self("parse_precedence", << emit_opcode(end_jump.c, Op("Pop")), Precedence.And >>)
  IN IF (rhs = rhs) THEN patch_jump(rhs, end_jump.r) ELSE rhs

or(c) ==
  LET else_jump == emit_opcode_idx(c, Op1("JumpIfFalse", 0))
      end_jump == emit_opcode_idx(else_jump.c, OpJump("Forwards", 0))
      rhs == self("parse_precedence", << emit_opcode(patch_jump(end_jump.c, else_jump.r), Op("Pop")),
                              Precedence.Or >>)
  IN IF (rhs = rhs) THEN patch_jump(rhs, end_jump.r) ELSE rhs

\* the loop of Compiler::tuple : count expressions are parsed
tuple_loop(c, count) ==
  IF current_type(c) = "RightParen" THEN [c |-> advance(c), r |-> count]
  ELSE LET e == self("expression", << c >>)
       IN IF current_type(e) = "Comma" THEN self("tuple_loop", << advance(e), count + 1 >>)
          ELSE IF current_type(e) = "RightParen" THEN [c |-> advance(e), r |-> count + 1]
          ELSE self("tuple_loop", << e, count + 1 >>)

\* Compiler::tuple
tuple(c) ==
  LET parsed == self("tuple_loop", << c, 1 >>)
  IN IF (parsed.c = parsed.c) THEN emit_opcode(parsed.c, Op1("Tuple", parsed.r)) ELSE parsed.c

\* Compiler::grouping
grouping(c) ==
  IF current_type(c) = "RightParen" THEN emit_opcode(advance(c), Op1("Tuple", 0))
  ELSE LET e == self("expression", << c >>)
       IN IF current_type(e) = "Comma" THEN self("tuple", << advance(e) >>)
          ELSE consume(e, "RightParen", Expected("')' after expression"))

\* Compiler::if_expr
if_expr(c) ==
  LET condition == self("expression", << c >>)
      then_jump == emit_opcode_idx(condition, Op1("JumpIfFalse", 0))
      true_branch == self("block", << consume(emit_opcode(then_jump.c, Op("Pop")), "LeftBrace",
                                   Expected("block after \"if\" expression")) >>)
      else_jump == emit_opcode_idx(true_branch, OpJump("Forwards", 0))
      patched == emit_opcode(patch_jump(else_jump.c, then_jump.r), Op("Pop"))
      else_clause ==
        IF current_type(patched) = "Else"
        THEN self("block", << consume(advance(patched), "LeftBrace",
                           Expected("block after \"else\" clause")) >>)
        ELSE patched
  IN IF (condition = condition) /\ (true_branch = true_branch) /\ (else_clause = else_clause)
     THEN patch_jump(else_clause, else_jump.r) ELSE else_clause

\* Compiler::while_expr
while_expr(c) ==
  LET loop_start == Len(current_chunk(c).code)
      condition == self("expression", << c >>)
      exit_jump == emit_opcode_idx(condition, Op1("JumpIfFalse", 0))
      body == self("block", << consume(emit_opcode(exit_jump.c, Op("Pop")), "LeftBrace",
                            Expected("block after \"while\" loop")) >>)
      looped == patch_jump(emit_loop(emit_opcode(body, Op("Pop")), loop_start), exit_jump.r)
  IN IF (condition = condition) /\ (body = body)
     THEN emit_opcode(emit_opcode(looped, Op("Pop")), Op1("Tuple", 0)) ELSE body

\* Compiler::unary
unary(c) ==
  LET unary_operator == previous_type(c)
      operand == self("parse_precedence", << c, Precedence.Unary >>)
  IN IF ~(operand = operand) THEN operand ELSE
     emit_opcode(operand, IF unary_operator = "Minus" THEN Op("Negate") ELSE Op("Not"))

\* the OpCodes Compiler::binary emits for an operator token
BinaryTokens ==
  [Asterisk |-> << "Multiply" >>, Minus |-> << "Subtract" >>, Plus |-> << "Add" >>,
   Slash |-> << "Divide" >>, NotEqual |-> << "Equal", "Not" >>, Equal |-> << "Equal" >>,
   GreaterThan |-> << "GreaterThan" >>, GreaterEqual |-> << "LessThan", "Not" >>,
   LessThan |-> << "LessThan" >>, LessEqual |-> << "GreaterThan", "Not" >>]

\* Compiler::binary
binary(c) ==
  LET binary_operator == previous_type(c)
      rule == get_rule(binary_operator).precedence
      operand == self("parse_precedence", << c, rule + 1 >>)
      opcodes == BinaryTokens[binary_operator]
  IN IF ~(operand = operand) THEN operand ELSE
     IF Len(opcodes) = 1 THEN emit_opcode(operand, Op(opcodes[1]))
     ELSE emit_opcode(emit_opcode(operand, Op(opcodes[1])), Op(opcodes[2]))

\* one turn of the loop of Compiler::argument_list (arg_count, r, is a u8;
\* more: the loop has not met its `break`)
argument_list_turn(args) ==
  LET e == self("expression", << args.c >>)
      counted == IF args.r = 255 THEN set_error(e, TooManyArguments) ELSE e
      count == IF args.r = 255 THEN args.r ELSE args.r + 1
  IN IF ~(e = e) THEN [c |-> e, r |-> count, more |-> FALSE] ELSE
     IF current_type(counted) = "Comma" THEN [c |-> advance(counted), r |-> count, more |-> TRUE]
     ELSE [c |-> counted, r |-> count, more |-> FALSE]

\* at most 4^k turns of the loop of Compiler::argument_list, up to its
\* `break`: a quarter of them, and again, and again, and again
argument_list_turns(args, k) ==
  IF ~args.more THEN args
  ELSE IF k = 0 THEN argument_list_turn(args)
  ELSE LET first == argument_list_turns(args, k - 1)
           second == argument_list_turns(first, k - 1)
           third == argument_list_turns(second, k - 1)
       IN IF (first = first) /\ (second = second) /\ (third = third)
          THEN argument_list_turns(third, k - 1) ELSE third

\* the loop of Compiler::argument_list up to its `break`: 4^k turns, then
\* 4^(k+1), and so on (so that the 256 arguments of a call are read 8 calls
\* deep, and not 256)
argument_list_loop(args, k) ==
  IF ~args.more THEN args
  ELSE LET done == argument_list_turns(args, k)
       IN IF (done = done) THEN argument_list_loop(done, k + 1) ELSE done

\* Compiler::argument_list
argument_list(c) ==
  LET args == IF current_type(c) # "RightParen"
              THEN self("argument_list_loop", << [c |-> c, r |-> 0, more |-> TRUE], 0 >>)
              ELSE [c |-> c, r |-> 0]
  IN [c |-> consume(args.c, "RightParen", Expected("')' after arguments")), r |-> args.r]

\* Compiler::call
call_tok(c) ==
  LET arg_count == self("argument_list", << c >>)
  IN IF (arg_count.c = arg_count.c) THEN emit_opcode(arg_count.c, Op1("Call", arg_count.r))
     ELSE arg_count.c

\* Compiler::literal
literal(c) ==
  emit_opcode(c, IF previous_type(c) = "False" THEN Op("False") ELSE Op("True"))

\* the arithmetic OpCode of a compound assignment token
CompoundAssign ==
  [AddAssign |-> "Add", SubtractAssign |-> "Subtract", MultiplyAssign |-> "Multiply",
   DivideAssign |-> "Divide"]

\* Compiler::named_variable
named_variable(c, lexeme, can_assign) ==
  LET var == self("resolve_variable", << c, lexeme >>)
  IN IF can_assign /\ current_type(var.c) = "Assign"
     THEN LET value == self("expression", << advance(var.c) >>)
          IN IF (value = value) THEN emit_opcode(value, var.set_op) ELSE value
     ELSE IF can_assign /\ current_type(var.c) \in DOMAIN CompoundAssign
     THEN LET value == self("expression", << emit_opcode(advance(var.c), var.get_op) >>)
          IN IF ~(value = value) THEN value ELSE
             emit_opcode(emit_opcode(value, Op(CompoundAssign[current_type(var.c)])),
                         var.set_op)
     ELSE emit_opcode(var.c, var.get_op)

\* Compiler::variable
variable(c, can_assign) == self("named_variable", << c, c.parser.previous.lexeme, can_assign >>)

\* Compiler::string
string(c) ==
  LET string_idx == make_constant(c, String(strip_quotes(c.parser.previous.lexeme)))
  IN emit_opcode(string_idx.c, Op1("Constant", string_idx.r))

\* Compiler::number
number(c) ==
  LET num_idx == make_constant(c, Number(parse_f64(c.parser.previous.lexeme)))
  IN emit_opcode(num_idx.c, Op1("Constant", num_idx.r))

\* prefix(self, can_assign) for the prefix method of a rule
prefix(c, rule_prefix, can_assign) ==
  CASE rule_prefix = "grouping" -> self("grouping", << c >>)
    [] rule_prefix = "block" -> self("block", << c >>)
    [] rule_prefix = "unary" -> self("unary", << c >>)
    [] rule_prefix = "variable" -> self("variable", << c, can_assign >>)
    [] rule_prefix = "string" -> self("string", << c >>)
    [] rule_prefix = "number" -> self("number", << c >>)
    [] rule_prefix = "literal" -> self("literal", << c >>)
    [] rule_prefix = "if_expr" -> self("if_expr", << c >>)
    [] rule_prefix = "log_expr" -> self("log_expr", << c >>)
    [] rule_prefix = "while_expr" -> self("while_expr", << c >>)

\* infix(self, can_assign) for the infix method of a rule
infix(c, rule_infix, can_assign) ==
  CASE rule_infix = "call" -> self("call_tok", << c >>)
    [] rule_infix = "binary" -> self("binary", << c >>)
    [] rule_infix = "and" -> self("and", << c >>)
    [] rule_infix = "or" -> self("or", << c >>)

\* the `while precedence <= ...` loop of parse_precedence
infix_loop(c, precedence, can_assign) ==
  IF precedence <= get_rule(current_type(c)).precedence
  THEN LET advanced == advance(c)
           rule_infix == get_rule(previous_type(advanced)).infix
           operated == IF rule_infix # "None" THEN self("infix", << advanced, rule_infix, can_assign >>)
                       ELSE advanced
       IN IF (operated = operated) THEN self("infix_loop", << operated, precedence, can_assign >>) ELSE operated
  ELSE c

\* Compiler::parse_precedence
parse_precedence(c, precedence) ==
  LET advanced == advance(c)
      rule_prefix == get_rule(previous_type(advanced)).prefix
      can_assign == precedence <= Precedence.Assignment
      prefixed == IF rule_prefix # "None" THEN self("prefix", << advanced, rule_prefix, can_assign >>)
                  ELSE set_error(advanced, Expected("expression"))
      checked == IF can_assign /\ current_type(prefixed) = "Assign"
                 THEN set_error(advance(prefixed), InvalidAssignmentTarget)
                 ELSE prefixed
  IN IF (prefixed = prefixed) THEN self("infix_loop", << checked, precedence, can_assign >>) ELSE prefixed

RECURSIVE compile_loop(_)
\* the loop of Compiler::compile
compile_loop(c) ==
  IF current_type(c) = "EOF" THEN advance(c)
  ELSE LET done == self("statement", << c >>) IN IF (done = done) THEN compile_loop(done) ELSE done

\* self.method(args) for the methods through which the compiler enters
\* itself again
self(method, args) ==
  CASE method = "expression" -> expression(args[1])
    [] method = "statement" -> statement(args[1])
    [] method = "parse_precedence" -> parse_precedence(args[1], args[2])
    [] method = "block" -> block(args[1])
    [] method = "and" -> and(args[1])
    [] method = "argument_list" -> argument_list(args[1])
    [] method = "argument_list_loop" -> argument_list_loop(args[1], args[2])
    [] method = "binary" -> binary(args[1])
    [] method = "call_tok" -> call_tok(args[1])
    [] method = "declaration" -> declaration(args[1])
    [] method = "fn_declaration" -> fn_declaration(args[1])
    [] method = "function_tok" -> function_tok(args[1], args[2])
    [] method = "grouping" -> grouping(args[1])
    [] method = "if_expr" -> if_expr(args[1])
    [] method = "infix" -> infix(args[1], args[2], args[3])
    [] method = "infix_loop" -> infix_loop(args[1], args[2], args[3])
    [] method = "log_expr" -> log_expr(args[1])
    [] method = "named_variable" -> named_variable(args[1], args[2], args[3])
    [] method = "or" -> or(args[1])
    [] method = "prefix" -> prefix(args[1], args[2], args[3])
    [] method = "raw_block" -> raw_block(args[1])
    [] method = "raw_block_loop" -> raw_block_loop(args[1])
    [] method = "return_stmt" -> return_stmt(args[1])
    [] method = "tuple" -> tuple(args[1])
    [] method = "tuple_loop" -> tuple_loop(args[1], args[2])
    [] method = "unary" -> unary(args[1])
    [] method = "variable" -> variable(args[1], args[2])
    [] method = "while_expr" -> while_expr(args[1])
    [] method = "parameters" -> parameters(args[1])
    [] method = "literal" -> literal(args[1])
    [] method = "string" -> string(args[1])
    [] method = "number" -> number(args[1])
    [] method = "resolve_variable" -> resolve_variable(args[1], args[2])

\* Compiler::compile
compile(tokens, unit) ==
  finish_script(compile_loop(advance(NewCompiler(tokens, unit))))

\* Compiler::compile_expr
compile_expr(tokens, unit) ==
  finish_expr(self("expression", << advance(NewCompiler(tokens, unit)) >>))

----------------------------------------------------------------------------
(* The text of an AST in the syntax of the token-driven compiler, as the   *)
(* tokens its scanner (compiler/scanner.rs) makes of it: `and` and `or`    *)
(* for && and ||, no `;` after the block of a `fn`, an operand that is     *)
(* itself an operation in parentheses.                                     *)

Punct(type) == Token(type, "")

BinaryOpToken ==
  [Or |-> "Or", And |-> "And", Equal |-> "Equal", NotEqual |-> "NotEqual",
   GreaterThan |-> "GreaterThan", GreaterEqual |-> "GreaterEqual", LessThan |-> "LessThan",
   LessEqual |-> "LessEqual", Add |-> "Plus", Subtract |-> "Minus",
   Multiply |-> "Asterisk", Divide |-> "Slash"]

UnaryOpToken == [Negate |-> "Minus", Not |-> "Not"]

RECURSIVE tokens_expr(_), tokens_stmt(_), tokens_stmts(_, _), tokens_list(_, _, _)

\* an operand: in parentheses unless it is a constant, a call or a block
tokens_operand(expr) ==
  IF expr.k \in {"Binary", "Assign", "Unary", "Log"}
  THEN << Punct("LeftParen") >> \o tokens_expr(expr) \o << Punct("RightParen") >>
  ELSE tokens_expr(expr)

\* the statements from the i-th on
tokens_stmts(stmts, i) ==
  IF i > Len(stmts) THEN <<>> ELSE tokens_stmt(stmts[i]) \o tokens_stmts(stmts, i + 1)

\* the expressions from the lo-th to the hi-th, a comma between two (the
\* first half of them, a comma, the rest)
tokens_list(exprs, lo, hi) ==
  IF lo > hi THEN <<>>
  ELSE IF lo = hi THEN tokens_expr(exprs[lo])
  ELSE LET mid == (lo + hi) \div 2
       IN tokens_list(exprs, lo, mid) \o << Punct("Comma") >> \o tokens_list(exprs, mid + 1, hi)

tokens_constant(constant) ==
  CASE constant.c = "True" -> << Punct("True") >>
    [] constant.c = "False" -> << Punct("False") >>
    [] constant.c = "Ident" -> << Token("Identifier", constant.ident) >>
    [] constant.c = "Number" -> << Token("Number", ToString(constant.num)) >>
    [] constant.c = "String" -> << Token("String", constant.str) >>
    [] constant.c = "Tuple" ->
         << Punct("LeftParen") >> \o tokens_list(constant.tuple, 1, Len(constant.tuple))
         \o (IF Len(constant.tuple) = 1 THEN << Punct("Comma") >> ELSE <<>>)
         \o << Punct("RightParen") >>

tokens_expr(expr) ==
  CASE expr.k = "Log" ->
         << Punct("Log"), Punct("LeftParen") >> \o tokens_expr(expr.expr)
         \o << Punct("RightParen") >>
    [] expr.k = "Block" ->
         << Punct("LeftBrace") >> \o tokens_stmts(expr.stmts, 1)
         \o (IF expr.expr.k = "None" THEN <<>> ELSE tokens_expr(expr.expr))
         \o << Punct("RightBrace") >>
    [] expr.k = "If" ->
         << Punct("If") >> \o tokens_expr(expr.condition) \o tokens_expr(expr.true_branch)
         \o (IF expr.false_branch.k = "None" THEN <<>>
             ELSE << Punct("Else") >> \o tokens_expr(expr.false_branch))
    [] expr.k = "While" ->
         << Punct("While") >> \o tokens_expr(expr.condition) \o << Punct("LeftBrace") >>
         \o tokens_stmts(expr.stmts, 1) \o << Punct("RightBrace") >>
    [] expr.k = "Assign" ->
         tokens_expr(expr.name) \o << Punct(expr.op) >> \o tokens_expr(expr.expr)
    [] expr.k = "Binary" ->
         tokens_operand(expr.lhs) \o << Punct(BinaryOpToken[expr.op]) >>
         \o tokens_operand(expr.rhs)
    [] expr.k = "Unary" -> << Punct(UnaryOpToken[expr.op]) >> \o tokens_operand(expr.expr)
    [] expr.k = "Call" ->
         tokens_operand(expr.function) \o << Punct("LeftParen") >>
         \o tokens_list(expr.args, 1, Len(expr.args)) \o << Punct("RightParen") >>
    [] expr.k = "Constant" -> tokens_constant(expr.constant)

RECURSIVE tokens_params(_, _)
tokens_params(args, i) ==
  IF i > Len(args) THEN <<>>
  ELSE << Token("Identifier", args[i]) >>
       \o (IF i < Len(args) THEN << Punct("Comma") >> ELSE <<>>)
       \o tokens_params(args, i + 1)

tokens_stmt(stmt) ==
  CASE stmt.k = "Function" ->
         << Punct("Fn"), Token("Identifier", stmt.ident), Punct("LeftParen") >>
         \o tokens_params(stmt.args, 1) \o << Punct("RightParen") >>
         \o tokens_expr(stmt.block)
    [] stmt.k = "Let" ->
         << Punct("Let"), Token("Identifier", stmt.ident) >>
         \o (IF stmt.expr.k = "None" THEN <<>>
             ELSE << Punct("Assign") >> \o tokens_expr(stmt.expr))
         \o << Punct("Semicolon") >>
    [] stmt.k = "Return" ->
         << Punct("Return") >>
         \o (IF stmt.expr.k = "None" THEN <<>> ELSE tokens_expr(stmt.expr))
         \o << Punct("Semicolon") >>
    [] stmt.k = "Expression" -> tokens_expr(stmt.expr) \o << Punct("Semicolon") >>

----------------------------------------------------------------------------
(* Source texts.  A text is given as the AST that the grammar of           *)
(* bobascript-parser makes of it; the token-driven compiler gets the       *)
(* tokens that its scanner makes of the same text.                         *)

Id(name) == Expr_Constant(Constant_Ident(name))
Num(n) == Expr_Constant(Constant_Number(n))
Str(s) == Expr_Constant(Constant_String(quoted(s)))
Tup(exprs) == Expr_Constant(Constant_Tuple(exprs))
Assign(name, expr) == Expr_Assign(Id(name), "Assign", expr)
Call0(name) == Expr_Call(Id(name), <<>>)

\* tests/assignment.rs:9-30 (associativity)
\*   let a = "a"; let b = "b"; let c = "c"; a = b = c;
associativity ==
  << Stmt_Let("a", Str("a")), Stmt_Let("b", Str("b")), Stmt_Let("c", Str("c")),
     Stmt_Expression(Assign("a", Assign("b", Id("c")))) >>

\* tests/assignment.rs:114-129 (syntax), the right-hand side in parentheses
\*   let a = "a"; let c = (a = "value");
syntax ==
  << Stmt_Let("a", Str("a")), Stmt_Let("c", Assign("a", Str("value"))) >>

\* the same chain on the locals of a function
\*   fn f() { let a = "a"; let b = "b"; let c = (a = b = "c"); (a, b, c) };
local_chain ==
  << Stmt_Function("f", <<>>,
       Expr_Block(<< Stmt_Let("a", Str("a")), Stmt_Let("b", Str("b")),
                     Stmt_Let("c", Assign("a", Assign("b", Str("c")))) >>,
                  Tup(<< Id("a"), Id("b"), Id("c") >>))) >>

\* the same chain on the variables a closure has captured
\*   fn f() { let a = "a"; let b = "b";
\*            fn g() { let c = (a = b = "c"); (a, b, c) }; g() };
upvalue_chain ==
  << Stmt_Function("f", <<>>,
       Expr_Block(<< Stmt_Let("a", Str("a")), Stmt_Let("b", Str("b")),
                     Stmt_Function("g", <<>>,
                       Expr_Block(<< Stmt_Let("c", Assign("a", Assign("b", Str("c")))) >>,
                                  Tup(<< Id("a"), Id("b"), Id("c") >>))) >>,
                  Call0("g"))) >>

\* two globals for the expressions that are evaluated
\*   let t = true; let f = false;
booleans ==
  << Stmt_Let("t", Expr_Constant(Constant_True)),
     Stmt_Let("f", Expr_Constant(Constant_False)) >>

\* tests/block.rs:5-20 (concatenation), with 5 - 3 for 15 / 3
\*   let test = "1" + { let test2 = 5; test2 - 3 };
concatenation ==
  << Stmt_Let("test",
       Expr_Binary(Str("1"), "Add",
         Expr_Block(<< Stmt_Let("test2", Num(5)) >>,
                    Expr_Binary(Id("test2"), "Subtract", Num(3))))) >>

\* tests/block.rs:22-35 (empty)
\*   {}; if true {}; if false {} else {};
empty ==
  << Stmt_Expression(Expr_Block(<<>>, None)),
     Stmt_Expression(Expr_If(Expr_Constant(Constant_True), Expr_Block(<<>>, None), None)),
     Stmt_Expression(Expr_If(Expr_Constant(Constant_False), Expr_Block(<<>>, None),
                             Expr_Block(<<>>, None))) >>

\* blocks without a tail expression, and tests/function.rs:22-34 (empty_body)
\*   let e = {}; let u = { let x = 1; }; fn f() {};
no_tail ==
  << Stmt_Let("e", Expr_Block(<<>>, None)),
     Stmt_Let("u", Expr_Block(<< Stmt_Let("x", Num(1)) >>, None)),
     Stmt_Function("f", <<>>, Expr_Block(<<>>, None)) >>

\* tests/block.rs:37-59 (scope), the values kept instead of compared
\*   let a = "outer"; let r = { let a = "inner"; let b = "b"; a };
scope ==
  << Stmt_Let("a", Str("outer")),
     Stmt_Let("r", Expr_Block(<< Stmt_Let("a", Str("inner")), Stmt_Let("b", Str("b")) >>,
                              Id("a"))) >>

\* the same inside a function, where the outer variable is a local too
\*   fn f() { let a = "outer"; let r = { let a = "inner"; a + "1" }; (a, r) };
local_scope ==
  << Stmt_Function("f", <<>>,
       Expr_Block(<< Stmt_Let("a", Str("outer")),
                     Stmt_Let("r", Expr_Block(<< Stmt_Let("a", Str("inner")) >>,
                                              Expr_Binary(Id("a"), "Add", Str("1")))) >>,
                  Tup(<< Id("a"), Id("r") >>))) >>

\* a loop that runs twice and a loop that never runs
\*   let i = 0; let w = while i < 2 { i = i + 1; }; let z = while false { i = 5; };
loops ==
  << Stmt_Let("i", Num(0)),
     Stmt_Let("w", Expr_While(Expr_Binary(Id("i"), "LessThan", Num(2)),
                    << Stmt_Expression(Assign("i", Expr_Binary(Id("i"), "Add", Num(1)))) >>)),
     Stmt_Let("z", Expr_While(Expr_Constant(Constant_False),
                    << Stmt_Expression(Assign("i", Num(5))) >>)) >>

\* the two loops in functions, with a variable declared in the body
\*   fn f() { let i = 0; while i < 2 { let x = i; i = i + 1; }; let y = "a"; y };
\*   fn g() { while false { let x = 1; }; let y = "b"; y };
local_loops ==
  << Stmt_Function("f", <<>>,
       Expr_Block(<< Stmt_Let("i", Num(0)),
                     Stmt_Expression(
                       Expr_While(Expr_Binary(Id("i"), "LessThan", Num(2)),
                         << Stmt_Let("x", Id("i")),
                            Stmt_Expression(
                              Assign("i", Expr_Binary(Id("i"), "Add", Num(1)))) >>)),
                     Stmt_Let("y", Str("a")) >>,
                  Id("y"))),
     Stmt_Function("g", <<>>,
       Expr_Block(<< Stmt_Expression(
                       Expr_While(Expr_Constant(Constant_False),
                         << Stmt_Let("x", Num(1)) >>)),
                     Stmt_Let("y", Str("b")) >>,
                  Id("y"))) >>

\* one name as a global, as a variable of an enclosing function and as a local
\*   let a = "global";
\*   fn f() { let a = "outer"; fn g() { let a = "inner"; a }; fn h() { a };
\*            (g(), h(), a) };
\*   fn k() { a };
shadowing ==
  << Stmt_Let("a", Str("global")),
     Stmt_Function("f", <<>>,
       Expr_Block(<< Stmt_Let("a", Str("outer")),
                     Stmt_Function("g", <<>>,
                       Expr_Block(<< Stmt_Let("a", Str("inner")) >>, Id("a"))),
                     Stmt_Function("h", <<>>, Expr_Block(<<>>, Id("a"))) >>,
                  Tup(<< Call0("g"), Call0("h"), Id("a") >>))),
     Stmt_Function("k", <<>>, Expr_Block(<<>>, Id("a"))) >>

\* a `let` in a function whose initialiser names the variable being declared
\*   fn f() { let a = a; a };
self_reference ==
  << Stmt_Function("f", <<>>,
       Expr_Block(<< Stmt_Let("a", Id("a")) >>, Id("a"))) >>

\* the same where an outer scope has a variable of that name
\*   fn f() { let a = "outer"; { let a = a; a } };
shadow_self_reference ==
  << Stmt_Function("f", <<>>,
       Expr_Block(<< Stmt_Let("a", Str("outer")) >>,
                  Expr_Block(<< Stmt_Let("a", Id("a")) >>, Id("a")))) >>

\* a global and a local function that call themselves
\*   fn count(n) { if n < 1 { 0 } else { count(n - 1) + 1 } };
\*   fn g() { fn down(n) { if n < 1 { "a" } else { down(n - 1) } }; down(2) };
recursion ==
  << Stmt_Function("count", << "n" >>,
       Expr_Block(<<>>,
         Expr_If(Expr_Binary(Id("n"), "LessThan", Num(1)),
                 Expr_Block(<<>>, Num(0)),
                 Expr_Block(<<>>,
                   Expr_Binary(Expr_Call(Id("count"),
                                 << Expr_Binary(Id("n"), "Subtract", Num(1)) >>),
                               "Add", Num(1)))))),
     Stmt_Function("g", <<>>,
       Expr_Block(<< Stmt_Function("down", << "n" >>,
                       Expr_Block(<<>>,
                         Expr_If(Expr_Binary(Id("n"), "LessThan", Num(1)),
                                 Expr_Block(<<>>, Str("a")),
                                 Expr_Block(<<>>,
                                   Expr_Call(Id("down"),
                                     << Expr_Binary(Id("n"), "Subtract", Num(1)) >>))))) >>,
                  Expr_Call(Id("down"), << Num(2) >>))) >>

\* a name declared twice in one scope
\*   fn f() { let a = "a"; let a = "b"; a };
redeclaration ==
  << Stmt_Function("f", <<>>,
       Expr_Block(<< Stmt_Let("a", Str("a")), Stmt_Let("a", Str("b")) >>, Id("a"))) >>

\* a name of an outer scope declared again in a block
\*   fn f() { let a = "outer"; { let a = "inner"; a } };
shadow_block ==
  << Stmt_Function("f", <<>>,
       Expr_Block(<< Stmt_Let("a", Str("outer")) >>,
                  Expr_Block(<< Stmt_Let("a", Str("inner")) >>, Id("a")))) >>

\* the same in the initialiser of the outer variable
\*   fn f() { let r = { let r = "inner"; r }; r };
shadow_initialiser ==
  << Stmt_Function("f", <<>>,
       Expr_Block(<< Stmt_Let("r", Expr_Block(<< Stmt_Let("r", Str("inner")) >>,
                                              Id("r"))) >>,
                  Id("r"))) >>

\* assignments to what is not an identifier (tests/assignment.rs)
\*   let a = "a"; let b = "b"; a + b = "value";
infix_target ==
  << Stmt_Let("a", Str("a")), Stmt_Let("b", Str("b")),
     Stmt_Expression(Expr_Assign(Expr_Binary(Id("a"), "Add", Id("b")), "Assign",
                                 Str("value"))) >>

\*   let a = "a"; !a = "value";
prefix_target ==
  << Stmt_Let("a", Str("a")),
     Stmt_Expression(Expr_Assign(Expr_Unary("Not", Id("a")), "Assign", Str("value"))) >>

\*   let a = "a"; !a += "value";
compound_target ==
  << Stmt_Let("a", Str("a")),
     Stmt_Expression(Expr_Assign(Expr_Unary("Not", Id("a")), "AddAssign",
                                 Str("value"))) >>

\* a number and a string for the conditions that are evaluated
\*   let n = 1; let s = "a";
non_boolean ==
  << Stmt_Let("n", Num(1)), Stmt_Let("s", Str("a")) >>


\* a call with n arguments
\*   f(true, true, .., true);
call_with(n) ==
  << Stmt_Expression(Expr_Call(Id("f"), [i \in 1..n |-> Expr_Constant(Constant_True)])) >>

\* the calls with no argument, with one, with 254 and 255 arguments, and with
\* one and two more
call_0 == call_with(0)
call_1 == call_with(1)
call_254 == call_with(254)
call_255 == call_with(255)
call_256 == call_with(256)
call_257 == call_with(257)


\* two statements, each with an error of its own
\*   return; !true = false;
two_errors ==
  << Stmt_Return(None),
     Stmt_Expression(Expr_Assign(Expr_Unary("Not", Expr_Constant(Constant_True)), "Assign",
                                 Expr_Constant(Constant_False))) >>


\* a function and a tuple for the comparisons that are evaluated
\* (tests/bool.rs:5-29 compares the literals)
\*   fn f() {}; let t = (1, "a");
equality ==
  << Stmt_Function("f", <<>>, Expr_Block(<<>>, None)),
     Stmt_Let("t", Tup(<< Num(1), Str("a") >>)) >>


\* tests/assignment.rs:32-46 (global), the assignments evaluated
\*   let a = "before";
global == << Stmt_Let("a", Str("before")) >>


\* a return outside of any function, without and with a value
\*   return;
top_level_return == << Stmt_Return(None) >>
\*   return 1;
top_level_return_value == << Stmt_Return(Num(1)) >>

\* a return in a function, with and without a value, and after a statement
\*   fn f() { return 1; }; fn g() { return; }; fn h() { let a = 2; return a; };
function_return ==
  << Stmt_Function("f", <<>>, Expr_Block(<< Stmt_Return(Num(1)) >>, None)),
     Stmt_Function("g", <<>>, Expr_Block(<< Stmt_Return(None) >>, None)),
     Stmt_Function("h", <<>>,
       Expr_Block(<< Stmt_Let("a", Num(2)), Stmt_Return(Id("a")) >>, None)) >>


\* locals that hold their own names (the counter i: the numbers), declared
\* in the body of a loop that runs twice, in a block that is the right
\* operand of a concatenation, and in a block that ends with one of them
\* captured
\*   fn plain() { let a = "a"; let b = "b"; (b, a) };
\*   fn looped() { let i = 0; while 2 > i { let x = "x"; i = i + 1; x; }; let y = "y"; y };
\*   fn operand() { "t" + { let z = "z"; z } };
\*   fn captured() { let c = "c"; { let d = "d"; fn inner() { d }; inner } };
named_locals ==
  << Stmt_Function("plain", <<>>,
       Expr_Block(<< Stmt_Let("a", Str("a")), Stmt_Let("b", Str("b")) >>,
                  Tup(<< Id("b"), Id("a") >>))),
     Stmt_Function("looped", <<>>,
       Expr_Block(<< Stmt_Let("i", Num(0)),
                     Stmt_Expression(
                       Expr_While(Expr_Binary(Num(2), "GreaterThan", Id("i")),
                         << Stmt_Let("x", Str("x")),
                            Stmt_Expression(
                              Assign("i", Expr_Binary(Id("i"), "Add", Num(1)))),
                            Stmt_Expression(Id("x")) >>)),
                     Stmt_Let("y", Str("y")) >>,
                  Id("y"))),
     Stmt_Function("operand", <<>>,
       Expr_Block(<<>>,
         Expr_Binary(Str("t"), "Add", Expr_Block(<< Stmt_Let("z", Str("z")) >>, Id("z"))))),
     Stmt_Function("captured", <<>>,
       Expr_Block(<< Stmt_Let("c", Str("c")) >>,
                  Expr_Block(<< Stmt_Let("d", Str("d")),
                                Stmt_Function("inner", <<>>, Expr_Block(<<>>, Id("d"))) >>,
                             Id("inner")))) >>


\* a function that captures a local of the function around it (b, its
\* local 1) and two variables that function captures in turn (p and q, its
\* upvalues 0 and 1)
\*   fn outer() { let p = "p"; let q = "q";
\*                fn middle() { let b = "b"; fn inner() { (b, p, q) }; inner };
\*                middle };
shared_upvalue ==
  << Stmt_Function("outer", <<>>,
       Expr_Block(<< Stmt_Let("p", Str("p")), Stmt_Let("q", Str("q")),
                     Stmt_Function("middle", <<>>,
                       Expr_Block(<< Stmt_Let("b", Str("b")),
                                     Stmt_Function("inner", <<>>,
                                       Expr_Block(<<>>,
                                         Tup(<< Id("b"), Id("p"), Id("q") >>))) >>,
                                  Id("inner"))) >>,
                  Id("middle"))) >>


\* a return in the block of an if branch, with a log after the if
\*   fn early() { if true { return "a"; }; log("after"); "b" };
nested_return ==
  << Stmt_Function("early", <<>>,
       Expr_Block(<< Stmt_Expression(
                       Expr_If(Expr_Constant(Constant_True),
                               Expr_Block(<< Stmt_Return(Str("a")) >>, None), None)),
                     Stmt_Expression(Expr_Log(Str("after"))) >>,
                  Str("b"))) >>


\* a function that refers twice to a local of the function around it (b)
\* and twice to a variable that function captures in turn (p)
\*   fn outer() { let p = "p";
\*                fn middle() { let b = "b"; fn inner() { (b, b, p, p) }; inner };
\*                middle };
repeated_capture ==
  << Stmt_Function("outer", <<>>,
       Expr_Block(<< Stmt_Let("p", Str("p")),
                     Stmt_Function("middle", <<>>,
                       Expr_Block(<< Stmt_Let("b", Str("b")),
                                     Stmt_Function("inner", <<>>,
                                       Expr_Block(<<>>,
                                         Tup(<< Id("b"), Id("b"), Id("p"), Id("p") >>))) >>,
                                  Id("inner"))) >>,
                  Id("middle"))) >>


\* functions that log when they run, for a call whose callee and whose
\* arguments log as well
\*   fn f(a, b) { log("body"); (a, b) }; fn pick() { log("callee"); f };
order ==
  << Stmt_Function("f", << "a", "b" >>,
       Expr_Block(<< Stmt_Expression(Expr_Log(Str("body"))) >>,
                  Tup(<< Id("a"), Id("b") >>))),
     Stmt_Function("pick", <<>>,
       Expr_Block(<< Stmt_Expression(Expr_Log(Str("callee"))) >>, Id("f"))) >>

\* the logical assignment operators, which only the AST has
\*   let x = true; let y = false; let a = false; let b = true;
\*   let r = x &&= false; let u = y ||= true;
\*   let e = a &&= log("rhs"); let z = b ||= log("rhs");
logical_assignment ==
  << Stmt_Let("x", Expr_Constant(Constant_True)),
     Stmt_Let("y", Expr_Constant(Constant_False)),
     Stmt_Let("a", Expr_Constant(Constant_False)),
     Stmt_Let("b", Expr_Constant(Constant_True)),
     Stmt_Let("r", Expr_Assign(Id("x"), "AndAssign", Expr_Constant(Constant_False))),
     Stmt_Let("u", Expr_Assign(Id("y"), "OrAssign", Expr_Constant(Constant_True))),
     Stmt_Let("e", Expr_Assign(Id("a"), "AndAssign", Expr_Log(Str("rhs")))),
     Stmt_Let("z", Expr_Assign(Id("b"), "OrAssign", Expr_Log(Str("rhs")))) >>

Sources ==
  [associativity |-> associativity, syntax |-> syntax,
   local_chain |-> local_chain, upvalue_chain |-> upvalue_chain,
   booleans |-> booleans,
   concatenation |-> concatenation, empty |-> empty, no_tail |-> no_tail,
   scope |-> scope, local_scope |-> local_scope,
   loops |-> loops, local_loops |-> local_loops, shadowing |-> shadowing,
   self_reference |-> self_reference,
   shadow_self_reference |-> shadow_self_reference, recursion |-> recursion,
   redeclaration |-> redeclaration, shadow_block |-> shadow_block,
   shadow_initialiser |-> shadow_initialiser,
   infix_target |-> infix_target, prefix_target |-> prefix_target,
   compound_target |-> compound_target,
   logical_assignment |-> logical_assignment,
   non_boolean |-> non_boolean,
   call_0 |-> call_0, call_1 |-> call_1, call_254 |-> call_254,
   call_255 |-> call_255, call_256 |-> call_256, call_257 |-> call_257,
   two_errors |-> two_errors,
   equality |-> equality,
   global |-> global,
   top_level_return |-> top_level_return,
   top_level_return_value |-> top_level_return_value, function_return |-> function_return,
   named_locals |-> named_locals,
   shared_upvalue |-> shared_upvalue,
   nested_return |-> nested_return,
   repeated_capture |-> repeated_capture,
   order |-> order]

\* the texts the token-driven compiler has no tokens for (AssignOp::OrAssign,
\* AssignOp::AndAssign are of the AST only)
AstOnly == {"logical_assignment"}

\* the texts a compiler is given
SourcesOf(compiler) == IF compiler = "ast" THEN DOMAIN Sources ELSE DOMAIN Sources \ AstOnly

\* the expressions given to evaluate, by their text
Probes ==
  [a |-> Id("a"), b |-> Id("b"), c |-> Id("c"), f |-> Call0("f"),
   e |-> Id("e"), r |-> Id("r"), u |-> Id("u"), x |-> Id("x"), y |-> Id("y"), test |-> Id("test"),
   g |-> Call0("g"), k |-> Call0("k"), i |-> Id("i"),
   count |-> Expr_Call(Id("count"), << Num(2) >>), w |-> Id("w"), z |-> Id("z"),
   \* while f { }   while f { t; }
   while_false |-> Expr_While(Id("f"), <<>>),
   while_false_body |-> Expr_While(Id("f"), << Stmt_Expression(Id("t")) >>),
   \* {}
   empty_block |-> Expr_Block(<<>>, None),
   \* f && log("rhs")   t && log("rhs")   t || log("rhs")   f || log("rhs")
   and_false |-> Expr_Binary(Id("f"), "And", Expr_Log(Str("rhs"))),
   and_true |-> Expr_Binary(Id("t"), "And", Expr_Log(Str("rhs"))),
   or_true |-> Expr_Binary(Id("t"), "Or", Expr_Log(Str("rhs"))),
   or_false |-> Expr_Binary(Id("f"), "Or", Expr_Log(Str("rhs"))),
   \* if f { "a" }   if t { "a" }
   if_false |-> Expr_If(Id("f"), Expr_Block(<<>>, Str("a")), None),
   if_true |-> Expr_If(Id("t"), Expr_Block(<<>>, Str("a")), None),
   \* if f { "a" } else { "b" }   if t { "a" } else { "b" }
   if_else_false |->
     Expr_If(Id("f"), Expr_Block(<<>>, Str("a")), Expr_Block(<<>>, Str("b"))),
   if_else_true |->
     Expr_If(Id("t"), Expr_Block(<<>>, Str("a")), Expr_Block(<<>>, Str("b"))),
   \* if n { "a" }   while s { }   n && true   s || true
   if_number |-> Expr_If(Id("n"), Expr_Block(<<>>, Str("a")), None),
   while_string |-> Expr_While(Id("s"), <<>>),
   and_number |-> Expr_Binary(Id("n"), "And", Expr_Constant(Constant_True)),
   or_string |-> Expr_Binary(Id("s"), "Or", Expr_Constant(Constant_True)),
   \* true == true   true == false   true == 1   1 == true   false == "false"
   \* false == ""
   eq_true_true |-> Expr_Binary(Expr_Constant(Constant_True), "Equal", Expr_Constant(Constant_True)),
   eq_true_false |-> Expr_Binary(Expr_Constant(Constant_True), "Equal", Expr_Constant(Constant_False)),
   eq_true_1 |-> Expr_Binary(Expr_Constant(Constant_True), "Equal", Num(1)),
   eq_1_true |-> Expr_Binary(Num(1), "Equal", Expr_Constant(Constant_True)),
   eq_false_string |-> Expr_Binary(Expr_Constant(Constant_False), "Equal", Str("false")),
   eq_false_empty |-> Expr_Binary(Expr_Constant(Constant_False), "Equal", Str("")),
   \* true != true   true != false   true != 1   false != "false"
   ne_true_true |-> Expr_Binary(Expr_Constant(Constant_True), "NotEqual", Expr_Constant(Constant_True)),
   ne_true_false |-> Expr_Binary(Expr_Constant(Constant_True), "NotEqual", Expr_Constant(Constant_False)),
   ne_true_1 |-> Expr_Binary(Expr_Constant(Constant_True), "NotEqual", Num(1)),
   ne_false_string |-> Expr_Binary(Expr_Constant(Constant_False), "NotEqual", Str("false")),
   \* t == (1, "a")   t == (1, "a", true)   (1, "b") == t   f == f
   eq_tuple |-> Expr_Binary(Id("t"), "Equal", Tup(<< Num(1), Str("a") >>)),
   eq_tuple_longer |->
     Expr_Binary(Id("t"), "Equal", Tup(<< Num(1), Str("a"), Expr_Constant(Constant_True) >>)),
   eq_tuple_other |-> Expr_Binary(Tup(<< Num(1), Str("b") >>), "Equal", Id("t")),
   eq_f_f |-> Expr_Binary(Id("f"), "Equal", Id("f")),
   \* "a" == "a"   1 == 2
   eq_strings |-> Expr_Binary(Str("a"), "Equal", Str("a")),
   eq_numbers |-> Expr_Binary(Num(1), "Equal", Num(2)),
   t |-> Id("t"),
   \* 1 + 2   "a" + "b"   "a" + 1   1 + "a"   true + 1   "a" + true   t + t   f + "a"
   add_numbers |-> Expr_Binary(Num(1), "Add", Num(2)),
   add_strings |-> Expr_Binary(Str("a"), "Add", Str("b")),
   add_string_number |-> Expr_Binary(Str("a"), "Add", Num(1)),
   add_number_string |-> Expr_Binary(Num(1), "Add", Str("a")),
   add_boolean_number |-> Expr_Binary(Expr_Constant(Constant_True), "Add", Num(1)),
   add_string_boolean |-> Expr_Binary(Str("a"), "Add", Expr_Constant(Constant_True)),
   add_tuples |-> Expr_Binary(Id("t"), "Add", Id("t")),
   add_f_string |-> Expr_Binary(Id("f"), "Add", Str("a")),
   \* a = "after"   a = "arg"
   a_after |-> Assign("a", Str("after")),
   a_arg |-> Assign("a", Str("arg")),
   h |-> Call0("h"),
   \* plain()   looped()   operand()   captured()()
   plain |-> Call0("plain"), looped |-> Call0("looped"), operand |-> Call0("operand"),
   captured |-> Expr_Call(Call0("captured"), <<>>),
   \* outer()()()
   outer |-> Expr_Call(Expr_Call(Call0("outer"), <<>>), <<>>),
   \* early()
   early |-> Call0("early"),
   \* pick()(log("x"), log("y"))
   ordered |-> Expr_Call(Call0("pick"), << Expr_Log(Str("x")), Expr_Log(Str("y")) >>)]

\* the expressions evaluated after a source text
ProbesOf ==
  [associativity |-> {"a", "b", "c"}, syntax |-> {"a", "c"},
   local_chain |-> {"f"}, upvalue_chain |-> {"f"},
   booleans |-> {"and_false", "and_true", "or_true", "or_false",
                 "if_false", "if_true", "if_else_false", "if_else_true",
                 "while_false", "while_false_body"},
   loops |-> {"i", "w", "z"}, local_loops |-> {"f", "g"},
   shadowing |-> {"a", "f", "k"},
   self_reference |-> {"f"}, shadow_self_reference |-> {"f"},
   recursion |-> {"count", "g"},
   redeclaration |-> {"f"}, shadow_block |-> {"f"}, shadow_initialiser |-> {"f"},
   infix_target |-> {"a"}, prefix_target |-> {"a"}, compound_target |-> {"a"},
   logical_assignment |-> {"x", "y", "a", "b", "r", "u", "e", "z"},
   concatenation |-> {"test"}, empty |-> {"empty_block"},
   no_tail |-> {"e", "u", "f", "x"}, scope |-> {"a", "r", "b"},
   local_scope |-> {"f"},
   non_boolean |-> {"if_number", "while_string", "and_number", "or_string"},
   call_0 |-> {}, call_1 |-> {}, call_254 |-> {},
   call_255 |-> {}, call_256 |-> {}, call_257 |-> {},
   two_errors |-> {},
   equality |-> {"eq_true_true", "eq_true_false", "eq_true_1", "eq_1_true", "eq_false_string", "eq_false_empty", "ne_true_true", "ne_true_false", "ne_true_1", "ne_false_string", "eq_tuple", "eq_tuple_longer", "eq_tuple_other", "eq_f_f", "eq_strings", "eq_numbers",
                 "add_numbers", "add_strings", "add_string_number", "add_number_string",
                 "add_boolean_number", "add_string_boolean", "add_tuples", "add_f_string", "t"},
   global |-> {"a", "a_after", "a_arg"},
   top_level_return |-> {}, top_level_return_value |-> {},
   function_return |-> {"f", "h"},
   named_locals |-> {"plain", "looped", "operand", "captured"},
   shared_upvalue |-> {"outer"},
   nested_return |-> {"early"},
   repeated_capture |-> {"outer"},
   order |-> {"ordered"}]

\* the two revisions of the compiler
Compilers == {"token", "ast"}

\* compile(source) of the compiler chosen
Compile(compiler, ast, unit) ==
  IF compiler = "ast" THEN compile_ast(ast, unit)
  ELSE compile(tokens_stmts(ast, 1), unit)

\* compile_expr(expression) of the compiler chosen
CompileExpr(compiler, expr, unit) ==
  IF compiler = "ast" THEN compile_expr_ast(expr, unit)
  ELSE compile_expr(tokens_expr(expr), unit)

\* a function as the table of its values
Table(f) == f @@ << >>

\* the result of compiling every source text with either compiler
CompiledSources ==
  Table([compiler \in Compilers |->
     Table([source \in SourcesOf(compiler) |->
        Compile(compiler, Sources[source], compiler \o ":" \o source)])])

\* the result of compiling every expression with either compiler
CompiledProbes ==
  Table([compiler \in Compilers |->
     Table([probe \in DOMAIN Probes |->
        CompileExpr(compiler, Probes[probe], compiler \o "=" \o probe)])])

\* the Functions a compilation has allocated, under their names
Allocated(unit, fns) ==
  { [id |-> FnId(unit, k), function |-> fns[k]] : k \in 1..Len(fns) }

\* the texts of a session with what compile and compile_expr return for them
\* (both are functions of the text alone), and every Function these
\* compilations allocate
Session(compiler, source, script, probes) ==
  [compiler |-> compiler, source |-> source,
   script |-> script.result,
   probes |-> [probe \in DOMAIN probes |-> probes[probe].result],
   functions |->
     Allocated(compiler \o ":" \o source, script.fns)
     \cup
     UNION { Allocated(compiler \o "=" \o probe, probes[probe].fns) :
             probe \in DOMAIN probes }]

\* the sessions: a build of the compiler, a source text to interpret and the
\* expressions to evaluate after it
Sessions ==
  UNION { { Session(compiler, source, CompiledSources[compiler][source],
                    [probe \in ProbesOf[source] |-> CompiledProbes[compiler][probe]]) :
            source \in SourcesOf(compiler) } :
          compiler \in Compilers }

----------------------------------------------------------------------------

FunctionOf(f) ==
  CASE f = "closed_script" -> closed_script
    [] f = "closed_outer" -> closed_outer
    [] f = "closed_inner" -> closed_inner
    [] f = "eval_closure" -> eval_closure
    [] f = "share_script" -> share_script
    [] f = "share_outer" -> share_outer
    [] f = "share_get" -> share_get
    [] f = "share_set" -> share_set
    [] f = "undef_set" -> undef_set
    [] f = "undef_get" -> undef_get
    [] f = "call_bool" -> call_bool
    [] f = "call_number" -> call_number
    [] f = "call_string" -> call_string
    [] f = "call_tuple" -> call_tuple
    [] f = "one_fn" -> one_fn
    [] f = "arity0_script" -> arity0_script
    [] f = "arity2_script" -> arity2_script
    [] f = "arity1_script" -> arity1_script
    [] f = "rec_script" -> rec_script
    [] f = "rec_fn" -> rec_fn
    [] f = "native2_expr" -> native2_expr
    [] f = "native1_expr" -> native1_expr
    [] f = "abort_script" -> abort_script
    [] f = "abort_outer" -> abort_outer
    [] f = "abort_inner" -> abort_inner
    [] f = "block_script" -> block_script
    [] f = "block_g" -> block_g
    [] OTHER -> (CHOOSE h \in session.functions : h.id = f).function

\* the sources handed to VM::interpret
Scripts ==
  { "closed_script", "share_script", "undef_set", "call_bool", "call_number",
    "call_string", "call_tuple", "arity0_script", "arity2_script", "arity1_script",
    "rec_script", "abort_script", "block_script" }
\* the expressions handed to VM::evaluate
Expressions == { "eval_closure", "undef_get", "native2_expr", "native1_expr" }

----------------------------------------------------------------------------
(* Conversions of value.rs                                                 *)

RECURSIVE ToStr(_), Display(_), JoinDisplay(_, _)

\* impl TryInto<String> for Value
ToStr(value) ==
  CASE value.t = "Tuple" -> "(" \o JoinDisplay(value.v, 1) \o ")"
    [] value.t = "Number" -> ToString(value.v)
    [] value.t = "Boolean" -> IF value.v THEN "true" ELSE "false"
    [] value.t = "String" -> value.v
    [] value.t = "Function" ->
         IF FunctionOf(value.v).name # "" THEN "<fn " \o FunctionOf(value.v).name \o ">"
         ELSE "<script>"
    [] value.t = "NativeFunction" -> "RefCell { value: <native fn> }"
    [] value.t = "Closure" ->
         IF FunctionOf(value.v.function).name # ""
         THEN "<fn " \o FunctionOf(value.v.function).name \o ">"
         ELSE "<script>"

\* impl fmt::Display for Value
Display(value) ==
  IF value.t = "String" THEN "\"" \o ToStr(value) \o "\"" ELSE ToStr(value)

\* .map(|v| format!("{}", v)).collect::<Vec<String>>().join(", ")
JoinDisplay(values, i) ==
  IF i > Len(values) THEN ""
  ELSE Display(values[i]) \o (IF i < Len(values) THEN ", " ELSE "") \o JoinDisplay(values, i + 1)

\* The host function `test` of src/tests/function.rs:58-71
NativeTest(params) ==
  IF Len(params) # 2 THEN Err(IncorrectParameterCount(2, Len(params)))
  ELSE Ok(String(Display(params[1]) \o Display(params[2])))

\* (native_fn.borrow().function)(args)
HostCall(native_fn, args) ==
  CASE native_fn = "test" -> NativeTest(args)

----------------------------------------------------------------------------
(* The VM's helper methods, as functions from the VM's fields (a record    *)
(* vm) to the outcome of the method: the fields afterwards and how control *)
(* leaves it.                                                              *)

VM ==
  [frames |-> frames, stack |-> stack, globals |-> globals, upvalues |-> upvalues,
   log_out |-> log_out, host |-> host]

Continue(vm) == [vm |-> vm, out |-> [k |-> "Continue"]]
\* `?` on an Err / `break Err(..)`
Fail(vm, error) == [vm |-> vm, out |-> Err(error)]
\* `break Ok(result)`
Break(vm, value) == [vm |-> vm, out |-> Ok(value)]
\* index out of bounds, unwrap() of None
Panic(vm) == [vm |-> vm, out |-> [k |-> "Panic"]]

\* VM::frame
frame(vm) == vm.frames[Len(vm.frames)]
chunk(vm) == FunctionOf(frame(vm).closure.function).chunk

\* VM::push
push(vm, value) == [vm EXCEPT !.stack = Append(@, value)]

\* VM::pop  (Vec::pop of an empty vector returns None and changes nothing)
pop(vm) == [vm EXCEPT !.stack = IF Len(@) = 0 THEN @ ELSE Front(@)]

\* VM::peek(n) is Some
can_peek(vm, n) == n < Len(vm.stack)
\* VM::peek : self.stack.iter().nth_back(n)
peek(vm, n) == vm.stack[Len(vm.stack) - n]

\* VM::pop_n
pop_n(vm, count) ==
  [vm EXCEPT !.stack = IF count >= Len(@) THEN <<>> ELSE SubSeq(@, 1, Len(@) - count)]

\* VM::find_upvalue : the first registry cell that is Open(idx); 0 when None
find_upvalue(vm, idx) ==
  LET found == { k \in 1..Len(vm.upvalues) :
                   vm.upvalues[k].st = "Open" /\ vm.upvalues[k].idx = idx }
  IN IF found = {} THEN 0 ELSE CHOOSE k \in found : \A j \in found : k <= j

\* capture_upvalue that never looks for an existing cell
capture_upvalue_fresh(vm, idx) ==
  [vm |-> [vm EXCEPT !.upvalues = Append(@, Open(idx))], cell |-> Len(vm.upvalues) + 1]

\* VM::capture_upvalue : the fields afterwards and the cell returned
capture_upvalue(vm, idx) ==
  IF find_upvalue(vm, idx) # 0
  THEN [vm |-> vm, cell |-> find_upvalue(vm, idx)]
  ELSE [vm |-> [vm EXCEPT !.upvalues = Append(@, Open(idx))],
        cell |-> Len(vm.upvalues) + 1]

\* VM::close_upvalues : `&self.stack[idx]` panics when idx is not a live slot
close_upvalues(vm, last_idx) ==
  LET closing == { k \in 1..Len(vm.upvalues) :
                     vm.upvalues[k].st = "Open" /\ vm.upvalues[k].idx >= last_idx }
  IN IF \E k \in closing : vm.upvalues[k].idx >= Len(vm.stack)
     THEN Panic(vm)
     ELSE Continue([vm EXCEPT !.upvalues =
            [k \in 1..Len(vm.upvalues) |->
               IF k \in closing THEN Closed(At(vm.stack, vm.upvalues[k].idx))
               ELSE vm.upvalues[k]]])

\* call with `self.frames.len() > 64` for `== 64`
call_late_overflow(vm, closure, arg_count) ==
  IF arg_count # FunctionOf(closure.function).arity
  THEN Fail(vm, IncorrectParameterCount(FunctionOf(closure.function).arity, arg_count))
  ELSE IF Len(vm.frames) > MaxFrames
  THEN Fail(vm, StackOverflow)
  ELSE Continue([vm EXCEPT !.frames =
         Append(@, [closure |-> closure, ip |-> 0,
                    slots_start |-> Len(vm.stack) - 1 - arg_count])])

\* call without the arity check
call_any_arity(vm, closure, arg_count) ==
  IF Len(vm.frames) = MaxFrames
  THEN Fail(vm, StackOverflow)
  ELSE Continue([vm EXCEPT !.frames =
         Append(@, [closure |-> closure, ip |-> 0,
                    slots_start |-> Len(vm.stack) - 1 - arg_count])])

\* call whose frame begins at the first argument
call_from_arguments(vm, closure, arg_count) ==
  IF arg_count # FunctionOf(closure.function).arity
  THEN Fail(vm, IncorrectParameterCount(FunctionOf(closure.function).arity, arg_count))
  ELSE IF Len(vm.frames) = MaxFrames
  THEN Fail(vm, StackOverflow)
  ELSE Continue([vm EXCEPT !.frames =
         Append(@, [closure |-> closure, ip |-> 0,
                    slots_start |-> Len(vm.stack) - arg_count])])

\* VM::call
call(vm, closure, arg_count) ==
  IF arg_count # FunctionOf(closure.function).arity
  THEN Fail(vm, IncorrectParameterCount(FunctionOf(closure.function).arity, arg_count))
  ELSE IF Len(vm.frames) = MaxFrames
  THEN Fail(vm, StackOverflow)
  ELSE Continue([vm EXCEPT !.frames =
         Append(@, [closure |-> closure, ip |-> 0,
                    slots_start |-> Len(vm.stack) - 1 - arg_count])])

\* call_value whose catch-all arm is Ok(())
call_value_lenient(vm, callee, arg_count) ==
  CASE callee.t = "Closure" -> call(vm, callee.v, arg_count)
    [] OTHER -> Continue(vm)

\* VM::call_value
call_value(vm, callee, arg_count) ==
  CASE callee.t = "Closure" -> call(vm, callee.v, arg_count)
    [] callee.t = "NativeFunction" ->
         LET arg_start == Len(vm.stack) - 1 - arg_count
             args == SubSeq(vm.stack, arg_start + 1, Len(vm.stack))
             returned == HostCall(callee.v, args)
             seen == [vm EXCEPT !.host = [called |-> TRUE, arg_count |-> arg_count,
                                          args |-> args, returned |-> returned,
                                          stack_before |-> vm.stack]]
         IN IF returned.k = "Err" THEN Fail(seen, returned.error)
            ELSE Continue(pop_n(seen, arg_count))
    [] OTHER -> Fail(vm, InvalidCallSignature)

----------------------------------------------------------------------------
(* The arms of `match instruction` in VM::run.  vm is the VM after         *)
(* `self.frame_mut().ip += 1`.                                             *)

insert(map, key, value) ==
  [n \in DOMAIN map \cup {key} |-> IF n = key THEN value ELSE map[n]]

\* OpCode::Tuple(length)
Exec_Tuple(vm, length) ==
  IF Len(vm.stack) < length THEN Panic(vm)
  ELSE Continue(push(pop_n(vm, length),
         Tuple(SubSeq(vm.stack, Len(vm.stack) - length + 1, Len(vm.stack)))))

\* OpCode::Constant(idx)
Exec_Constant(vm, idx) == Continue(push(vm, At(chunk(vm).constants, idx)))

\* OpCode::True / OpCode::False
Exec_True(vm) == Continue(push(vm, Boolean(TRUE)))
Exec_False(vm) == Continue(push(vm, Boolean(FALSE)))

\* OpCode::Pop
Exec_Pop(vm) == Continue(pop(vm))

\* OpCode::DefineGlobal(idx)
Exec_DefineGlobal(vm, idx) ==
  LET name == ToStr(At(chunk(vm).constants, idx))
  IN IF ~can_peek(vm, 0) THEN Panic(vm)
     ELSE Continue(pop([vm EXCEPT !.globals = insert(@, name, peek(vm, 0))]))

\* OpCode::GetLocal(idx)
Exec_GetLocal(vm, idx) ==
  IF frame(vm).slots_start + idx >= Len(vm.stack) THEN Panic(vm)
  ELSE Continue(push(vm, At(vm.stack, frame(vm).slots_start + idx)))

\* SetLocal that pops the value it has stored
Exec_SetLocal_pops(vm, idx) ==
  IF ~can_peek(vm, 0) \/ frame(vm).slots_start + idx >= Len(vm.stack) THEN Panic(vm)
  ELSE Continue(pop([vm EXCEPT !.stack[frame(vm).slots_start + idx + 1] = peek(vm, 0)]))

\* OpCode::SetLocal(idx)
Exec_SetLocal(vm, idx) ==
  IF ~can_peek(vm, 0) \/ frame(vm).slots_start + idx >= Len(vm.stack) THEN Panic(vm)
  ELSE Continue([vm EXCEPT !.stack[frame(vm).slots_start + idx + 1] = peek(vm, 0)])

\* OpCode::GetGlobal(idx)
Exec_GetGlobal(vm, idx) ==
  LET name == ToStr(At(chunk(vm).constants, idx))
  IN IF name \notin DOMAIN vm.globals THEN Fail(vm, UndefinedVariable(name))
     ELSE Continue(push(vm, vm.globals[name]))

\* SetGlobal written with HashMap::insert
Exec_SetGlobal_inserts(vm, idx) ==
  LET name == ToStr(At(chunk(vm).constants, idx))
  IN IF ~can_peek(vm, 0) THEN Panic(vm)
     ELSE Continue([vm EXCEPT !.globals = insert(@, name, peek(vm, 0))])

\* OpCode::SetGlobal(idx)
Exec_SetGlobal(vm, idx) ==
  LET name == ToStr(At(chunk(vm).constants, idx))
  IN IF ~can_peek(vm, 0) THEN Panic(vm)
     ELSE IF name \notin DOMAIN vm.globals THEN Fail(vm, UndefinedVariable(name))
     ELSE Continue([vm EXCEPT !.globals[name] = peek(vm, 0)])

\* OpCode::GetUpvalue(idx)
Exec_GetUpvalue(vm, idx) ==
  IF idx >= Len(frame(vm).closure.upvalues) THEN Panic(vm)
  ELSE LET upvalue == vm.upvalues[At(frame(vm).closure.upvalues, idx)]
       IN IF upvalue.st = "Open"
          THEN IF upvalue.idx >= Len(vm.stack) THEN Panic(vm)
               ELSE Continue(push(vm, At(vm.stack, upvalue.idx)))
          ELSE Continue(push(vm, upvalue.value))

\* OpCode::SetUpvalue(idx)
Exec_SetUpvalue(vm, idx) ==
  IF ~can_peek(vm, 0) \/ idx >= Len(frame(vm).closure.upvalues) THEN Panic(vm)
  ELSE LET cell == At(frame(vm).closure.upvalues, idx)
           upvalue == vm.upvalues[cell]
       IN IF upvalue.st = "Open"
          THEN IF upvalue.idx >= Len(vm.stack) THEN Panic(vm)
               ELSE Continue([vm EXCEPT !.stack[upvalue.idx + 1] = peek(vm, 0)])
          ELSE Continue([vm EXCEPT !.upvalues[cell] = Closed(peek(vm, 0))])

\* Add that concatenates the right operand and then the left
Exec_Add_reversed(vm) ==
  IF ~can_peek(vm, 0) \/ ~can_peek(vm, 1) THEN Fail(vm, Unknown)
  ELSE LET b == peek(vm, 0)
           a == peek(vm, 1)
       IN CASE a.t = "Number" /\ b.t = "Number" ->
                 Continue(push(pop_n(vm, 2), Number(a.v + b.v)))
            [] \/ a.t = "String" /\ b.t = "String"
               \/ a.t = "Number" /\ b.t = "String"
               \/ a.t = "String" /\ b.t = "Number" ->
                 Continue(push(pop_n(vm, 2), String(ToStr(b) \o ToStr(a))))
            [] OTHER -> Fail(vm, OperationNotSupported)

\* OpCode::Add
Exec_Add(vm) ==
  IF ~can_peek(vm, 0) \/ ~can_peek(vm, 1) THEN Fail(vm, Unknown)
  ELSE LET b == peek(vm, 0)
           a == peek(vm, 1)
       IN CASE a.t = "Number" /\ b.t = "Number" ->
                 Continue(push(pop_n(vm, 2), Number(a.v + b.v)))
            [] \/ a.t = "String" /\ b.t = "String"
               \/ a.t = "Number" /\ b.t = "String"
               \/ a.t = "String" /\ b.t = "Number" ->
                 Continue(push(pop_n(vm, 2), String(ToStr(a) \o ToStr(b))))
            [] OTHER -> Fail(vm, OperationNotSupported)

\* Log that takes the value off the stack
Exec_Log_pops(vm) ==
  IF ~can_peek(vm, 0) THEN Panic(vm)
  ELSE Continue(pop([vm EXCEPT !.log_out = Append(@, peek(vm, 0))]))

\* OpCode::Log
Exec_Log(vm) ==
  IF ~can_peek(vm, 0) THEN Panic(vm)
  ELSE Continue([vm EXCEPT !.log_out = Append(@, peek(vm, 0))])

\* VM::peek_and_pop_as::<T> : the converted top of the stack, popped only
\* when the conversion succeeded (type is "Number" for f64, "Boolean" for bool)
peek_and_pop_as(vm, type) ==
  IF ~can_peek(vm, 0) THEN [vm |-> vm, res |-> Err(Unknown)]
  ELSE IF peek(vm, 0).t # type
       THEN [vm |-> vm,
             res |-> Err(TypeError(IF type = "Number" THEN "number" ELSE "boolean"))]
       ELSE [vm |-> pop(vm), res |-> Ok(peek(vm, 0).v)]

\* binary_op!(self, f64, op) : b then a are taken off the stack; the error of
\* a comes first (a.and_then(|a| b.and_then(..)))
binary_op(vm) ==
  LET b == peek_and_pop_as(vm, "Number")
      a == peek_and_pop_as(b.vm, "Number")
  IN [vm |-> a.vm,
      res |-> IF a.res.k = "Err" THEN a.res
              ELSE IF b.res.k = "Err" THEN b.res
              ELSE Ok([a |-> a.res.value, b |-> b.res.value])]

RECURSIVE equal(_, _)
\* Value::equal that compares the lengths of two tuples, not their elements
equal_lengths(a, b) ==
  CASE a.t = "Number" /\ b.t = "Number" -> a.v = b.v
    [] a.t = "Boolean" /\ b.t = "Boolean" -> a.v = b.v
    [] a.t = "String" /\ b.t = "String" -> a.v = b.v
    [] a.t = "Tuple" /\ b.t = "Tuple" -> Len(a.v) = Len(b.v)
    [] OTHER -> FALSE

\* Value::equal (numbers of the model are integers: |a - b| < EPSILON is a = b)
equal(a, b) ==
  CASE a.t = "Number" /\ b.t = "Number" -> a.v = b.v
    [] a.t = "Boolean" /\ b.t = "Boolean" -> a.v = b.v
    [] a.t = "String" /\ b.t = "String" -> a.v = b.v
    [] a.t = "Tuple" /\ b.t = "Tuple" ->
         /\ Len(a.v) = Len(b.v)
         /\ \A i \in 1..Len(a.v) : equal(a.v[i], b.v[i])
    [] OTHER -> FALSE

\* OpCode::Equal
Exec_Equal(vm) ==
  IF ~can_peek(vm, 0) THEN Fail(vm, Unknown)
  ELSE IF ~can_peek(vm, 1) THEN Fail(pop(vm), Unknown)
  ELSE Continue(push(pop_n(vm, 2), Boolean(equal(peek(vm, 1), peek(vm, 0)))))

\* OpCode::GreaterThan
Exec_GreaterThan(vm) ==
  LET r == binary_op(vm)
  IN IF r.res.k = "Err" THEN Fail(r.vm, r.res.error)
     ELSE Continue(push(r.vm, Boolean(r.res.value.a > r.res.value.b)))

\* OpCode::LessThan
Exec_LessThan(vm) ==
  LET r == binary_op(vm)
  IN IF r.res.k = "Err" THEN Fail(r.vm, r.res.error)
     ELSE Continue(push(r.vm, Boolean(r.res.value.a < r.res.value.b)))

\* OpCode::Subtract
Exec_Subtract(vm) ==
  LET r == binary_op(vm)
  IN IF r.res.k = "Err" THEN Fail(r.vm, r.res.error)
     ELSE Continue(push(r.vm, Number(r.res.value.a - r.res.value.b)))

\* OpCode::Not
Exec_Not(vm) ==
  LET r == peek_and_pop_as(vm, "Boolean")
  IN IF r.res.k = "Err" THEN Fail(r.vm, r.res.error)
     ELSE Continue(push(r.vm, Boolean(~r.res.value)))

\* OpCode::Jump(direction, offset) : ip is a usize
Exec_Jump(vm, direction, offset) ==
  IF direction = "Forwards"
  THEN Continue([vm EXCEPT !.frames[Len(vm.frames)].ip = @ + offset])
  ELSE IF offset > frame(vm).ip THEN Panic(vm)
       ELSE Continue([vm EXCEPT !.frames[Len(vm.frames)].ip = @ - offset])

\* JumpIfFalse that never jumps
Exec_JumpIfFalse_falls_through(vm, offset) ==
  IF ~can_peek(vm, 0) THEN Panic(vm)
  ELSE IF peek(vm, 0).t # "Boolean" THEN Panic(vm)
  ELSE Continue(vm)

\* OpCode::JumpIfFalse(offset) : peek(0).unwrap() and try_into().unwrap()
Exec_JumpIfFalse(vm, offset) ==
  IF ~can_peek(vm, 0) THEN Panic(vm)
  ELSE IF peek(vm, 0).t # "Boolean" THEN Panic(vm)
  ELSE IF ~peek(vm, 0).v
       THEN Continue([vm EXCEPT !.frames[Len(vm.frames)].ip = @ + offset])
       ELSE Continue(vm)

\* OpCode::Call(args)
Exec_Call(vm, args) ==
  IF ~can_peek(vm, args) THEN Panic(vm)
  ELSE call_value(vm, peek(vm, args), args)

\* the `upvalues.iter().map(..).collect()` of OpCode::Closure, from descriptor i on:
\* the fields afterwards and the cells collected (cells = <<-1>>: a panic)
RECURSIVE capture_all(_, _, _, _)
capture_all(vm, descs, i, cells) ==
  IF i > Len(descs) THEN [vm |-> vm, cells |-> cells]
  ELSE IF descs[i].is_local
  THEN LET c == capture_upvalue(vm, frame(vm).slots_start + descs[i].index)
       IN capture_all(c.vm, descs, i + 1, Append(cells, c.cell))
  ELSE IF descs[i].index >= Len(frame(vm).closure.upvalues)
  THEN [vm |-> vm, cells |-> <<-1>>]
  ELSE capture_all(vm, descs, i + 1,
                   Append(cells, At(frame(vm).closure.upvalues, descs[i].index)))

\* OpCode::Closure(idx, upvalues)
Exec_Closure(vm, idx, descs) ==
  LET function == At(chunk(vm).constants, idx)
      c == capture_all(vm, descs, 1, <<>>)
  IN IF function.t \notin {"Function", "Closure"} \/ c.cells = <<-1>> THEN Panic(vm)
     ELSE Continue(push(c.vm,
            Closure(IF function.t = "Function" THEN function.v ELSE function.v.function,
                    c.cells)))

\* OpCode::CloseUpvalue  (`self.stack.len() - 1` of an empty stack overflows:
\* a panic in a build with overflow checks)
Exec_CloseUpvalue(vm) ==
  IF Len(vm.stack) = 0 THEN Panic(vm)
  ELSE LET closed == close_upvalues(vm, Len(vm.stack) - 1)
       IN IF closed.out.k = "Panic" THEN closed ELSE Continue(pop(closed.vm))

\* Return whose last-frame arm leaves out `self.pop();` (the top-level closure stays)
Exec_Return_keeps_closure(vm) ==
  LET result_value == IF can_peek(vm, 0) THEN peek(vm, 0) ELSE get_unit
      closed == close_upvalues(pop(vm), frame(vm).slots_start)
      after == closed.vm
  IN IF closed.out.k = "Panic" THEN closed
     ELSE IF Len(after.frames) = 1
     THEN Break([after EXCEPT !.frames = Front(@)], result_value)
     ELSE Continue([push(pop_n(after, Len(after.stack) - frame(after).slots_start),
                         result_value)
                    EXCEPT !.frames = Front(@)])

\* OpCode::Return
Exec_Return(vm) ==
  LET result_value == IF can_peek(vm, 0) THEN peek(vm, 0) ELSE get_unit
      closed == close_upvalues(pop(vm), frame(vm).slots_start)
      after == closed.vm
  IN IF closed.out.k = "Panic" THEN closed
     ELSE IF Len(after.frames) = 1
     THEN Break(pop([after EXCEPT !.frames = Front(@)]), result_value)
     ELSE IF Len(after.stack) < frame(after).slots_start THEN Panic(after)
     ELSE Continue([push(pop_n(after, Len(after.stack) - frame(after).slots_start),
                         result_value)
                    EXCEPT !.frames = Front(@)])

----------------------------------------------------------------------------
(* The state machine                                                       *)

\* no source text has been given to the VM
NoSession ==
  [compiler |-> "", source |-> "", script |-> NoResult, probes |-> << >>,
   functions |-> {}]

NoHostCall ==
  [called |-> FALSE, arg_count |-> 0, args |-> <<>>, returned |-> NoResult,
   stack_before |-> <<>>]

\* VM::new
Init ==
  /\ frames = <<>>
  /\ stack = <<>>
  /\ globals = [n \in {} |-> get_unit]
  /\ upvalues = <<>>
  /\ log_out = <<>>
  /\ host = NoHostCall
  /\ pc = "idle"
  /\ result = NoResult
  /\ prog = ""
  /\ runs = 0
  /\ dispatched = 0
  /\ err_frames = 0
  /\ session = NoSession

SetVM(vm) ==
  /\ frames' = vm.frames
  /\ stack' = vm.stack
  /\ globals' = vm.globals
  /\ upvalues' = vm.upvalues
  /\ log_out' = vm.log_out
  /\ host' = vm.host

\* VM::define_native
define_native(vm, name, function) ==
  LET pushed == push(push(vm, String(name)), NativeFunction(function))
  IN IF At(pushed.stack, 1).t # "NativeFunction" THEN Panic(pushed)
     ELSE Continue(pop_n([pushed EXCEPT !.globals =
                            insert(@, ToStr(At(pushed.stack, 0)), At(pushed.stack, 1))], 2))

DefineNative ==
  /\ pc = "idle"
  /\ \E name \in {"test"} :
       LET r == define_native(VM, name, name)
       IN /\ SetVM(r.vm)
          /\ pc' = IF r.out.k = "Panic" THEN "panicked" ELSE "idle"
  /\ UNCHANGED <<result, prog, runs, dispatched, err_frames, session>>

\* VM::interpret / VM::evaluate up to `let result = self.run();`
\* (function: what compile / compile_expr returned)
enter(vm, function) ==
  LET closure == [function |-> function, upvalues |-> <<>>]
  IN call(push(pop(push(vm, Function(function))), Closure(function, <<>>)), closure, 0)

Enter(function) ==
  LET r == enter(VM, function)
  IN /\ SetVM(r.vm)
     /\ prog' = function
     /\ runs' = runs + 1
     /\ dispatched' = 0
     /\ IF r.out.k = "Err"
        THEN pc' = "idle" /\ result' = r.out /\ err_frames' = Len(r.vm.frames)
        ELSE pc' = "running" /\ result' = NoResult /\ err_frames' = 0

Interpret ==
  /\ pc = "idle"
  /\ runs < MaxRuns
  /\ \E source \in Scripts : Enter(source)
  /\ UNCHANGED session

Evaluate ==
  /\ pc = "idle"
  /\ runs < MaxRuns
  /\ \E function \in Expressions : Enter(function)
  /\ UNCHANGED session

\* interpret / evaluate of a source text: `let function = compile(source)?;`
\* and then as above
Start(function) ==
  CASE function.k = "Err" ->
         /\ result' = Err(CompileError(function.error))
         /\ runs' = runs + 1
         /\ UNCHANGED <<frames, stack, globals, upvalues, log_out, host, pc, prog,
                        dispatched, err_frames>>
    [] function.k = "Panic" ->
         \* the compiler has panicked: the call returns nothing
         /\ result' = function
         /\ runs' = runs + 1
         /\ pc' = "panicked"
         /\ UNCHANGED <<frames, stack, globals, upvalues, log_out, host, prog,
                        dispatched, err_frames>>
    [] OTHER -> Enter(function.value)

\* VM::interpret(source) on a new VM
InterpretSource ==
  /\ pc = "idle"
  /\ runs = 0
  /\ Start(session.script)
  /\ UNCHANGED session

\* VM::evaluate(expression) on the VM that has interpreted the source
EvaluateSource ==
  /\ pc = "idle"
  /\ runs >= 1
  /\ runs < MaxRuns
  /\ \E probe \in DOMAIN session.probes : Start(session.probes[probe])
  /\ UNCHANGED session

\* the instruction VM::run fetches, and the VM once ip is advanced
Instr == At(chunk(VM).code, frame(VM).ip)
Fetched == [VM EXCEPT !.frames[Len(frames)].ip = @ + 1]

Dispatching(op) ==
  /\ pc = "running"
  /\ frame(VM).ip < Len(chunk(VM).code)
  /\ Instr.op = op

\* one turn of the loop of VM::run whose instruction had outcome r
Dispatch(r) ==
  /\ SetVM(r.vm)
  /\ dispatched' = dispatched + 1
  /\ UNCHANGED <<prog, runs, session>>
  /\ CASE r.out.k = "Continue" -> pc' = "running" /\ UNCHANGED <<result, err_frames>>
       [] r.out.k = "Ok" -> pc' = "returned" /\ result' = r.out /\ UNCHANGED err_frames
       [] r.out.k = "Err" ->
            pc' = "returned" /\ result' = r.out /\ err_frames' = Len(r.vm.frames)
       [] r.out.k = "Panic" ->
            pc' = "panicked" /\ result' = r.out /\ UNCHANGED err_frames

Run_Tuple == Dispatching("Tuple") /\ Dispatch(Exec_Tuple(Fetched, Instr.a))
Run_Constant == Dispatching("Constant") /\ Dispatch(Exec_Constant(Fetched, Instr.a))
Run_True == Dispatching("True") /\ Dispatch(Exec_True(Fetched))
Run_Pop == Dispatching("Pop") /\ Dispatch(Exec_Pop(Fetched))
Run_DefineGlobal == Dispatching("DefineGlobal") /\ Dispatch(Exec_DefineGlobal(Fetched, Instr.a))
Run_GetLocal == Dispatching("GetLocal") /\ Dispatch(Exec_GetLocal(Fetched, Instr.a))
Run_SetLocal == Dispatching("SetLocal") /\ Dispatch(Exec_SetLocal(Fetched, Instr.a))
Run_GetGlobal == Dispatching("GetGlobal") /\ Dispatch(Exec_GetGlobal(Fetched, Instr.a))
Run_SetGlobal == Dispatching("SetGlobal") /\ Dispatch(Exec_SetGlobal(Fetched, Instr.a))
Run_GetUpvalue == Dispatching("GetUpvalue") /\ Dispatch(Exec_GetUpvalue(Fetched, Instr.a))
Run_SetUpvalue == Dispatching("SetUpvalue") /\ Dispatch(Exec_SetUpvalue(Fetched, Instr.a))
Run_Add == Dispatching("Add") /\ Dispatch(Exec_Add(Fetched))
Run_Log == Dispatching("Log") /\ Dispatch(Exec_Log(Fetched))
Run_Call == Dispatching("Call") /\ Dispatch(Exec_Call(Fetched, Instr.a))
Run_Closure == Dispatching("Closure") /\ Dispatch(Exec_Closure(Fetched, Instr.a, Instr.upvalues))
Run_CloseUpvalue == Dispatching("CloseUpvalue") /\ Dispatch(Exec_CloseUpvalue(Fetched))
Run_Return == Dispatching("Return") /\ Dispatch(Exec_Return(Fetched))
Run_False == Dispatching("False") /\ Dispatch(Exec_False(Fetched))
Run_Equal == Dispatching("Equal") /\ Dispatch(Exec_Equal(Fetched))
Run_GreaterThan == Dispatching("GreaterThan") /\ Dispatch(Exec_GreaterThan(Fetched))
Run_LessThan == Dispatching("LessThan") /\ Dispatch(Exec_LessThan(Fetched))
Run_Subtract == Dispatching("Subtract") /\ Dispatch(Exec_Subtract(Fetched))
Run_Not == Dispatching("Not") /\ Dispatch(Exec_Not(Fetched))
Run_Jump == Dispatching("Jump") /\ Dispatch(Exec_Jump(Fetched, Instr.direction, Instr.offset))
Run_JumpIfFalse == Dispatching("JumpIfFalse") /\ Dispatch(Exec_JumpIfFalse(Fetched, Instr.a))

\* interpret / evaluate that leave out `self.frames.clear();`
clear_stack_only(vm) == [vm EXCEPT !.stack = <<>>]

\* interpret / evaluate that clear the globals too
clear_globals(vm) ==
  [vm EXCEPT !.stack = <<>>, !.frames = <<>>, !.globals = [n \in {} |-> get_unit]]

\* `self.stack.clear(); self.frames.clear();` of interpret / evaluate
clear(vm) == [vm EXCEPT !.stack = <<>>, !.frames = <<>>]

\* interpret / evaluate from the return of run to their own return
Leave ==
  /\ pc = "returned"
  /\ SetVM(clear(VM))
  /\ pc' = "idle"
  /\ UNCHANGED <<result, prog, runs, dispatched, err_frames, session>>

Next ==
  \/ DefineNative
  \/ Interpret
  \/ Evaluate
  \/ Run_Tuple
  \/ Run_Constant
  \/ Run_True
  \/ Run_Pop
  \/ Run_DefineGlobal
  \/ Run_GetLocal
  \/ Run_SetLocal
  \/ Run_GetGlobal
  \/ Run_SetGlobal
  \/ Run_GetUpvalue
  \/ Run_SetUpvalue
  \/ Run_Add
  \/ Run_Log
  \/ Run_Call
  \/ Run_Closure
  \/ Run_CloseUpvalue
  \/ Run_Return
  \/ Leave

Spec == Init /\ [][Next]_vars

\* a VM that is given source texts
NextSource ==
  \/ InterpretSource
  \/ EvaluateSource
  \/ Run_Tuple
  \/ Run_Constant
  \/ Run_True
  \/ Run_Pop
  \/ Run_DefineGlobal
  \/ Run_GetLocal
  \/ Run_SetLocal
  \/ Run_GetGlobal
  \/ Run_SetGlobal
  \/ Run_GetUpvalue
  \/ Run_SetUpvalue
  \/ Run_Add
  \/ Run_Log
  \/ Run_Call
  \/ Run_Closure
  \/ Run_CloseUpvalue
  \/ Run_Return
  \/ Run_False
  \/ Run_Equal
  \/ Run_GreaterThan
  \/ Run_LessThan
  \/ Run_Subtract
  \/ Run_Not
  \/ Run_Jump
  \/ Run_JumpIfFalse
  \/ Leave

\* VM::new, for the build of the compiler and the source text it is going
\* to be given
InitSource ==
  /\ session \in Sessions
  /\ frames = <<>>
  /\ stack = <<>>
  /\ globals = [n \in {} |-> get_unit]
  /\ upvalues = <<>>
  /\ log_out = <<>>
  /\ host = NoHostCall
  /\ pc = "idle"
  /\ result = NoResult
  /\ prog = ""
  /\ runs = 0
  /\ dispatched = 0
  /\ err_frames = 0

SourceSpec == InitSource /\ [][NextSource]_vars

----------------------------------------------------------------------------
(* Properties                                                              *)

\* C1: once interpret/evaluate has a successful result, the value stack and
\* the frame stack are empty - already when run returns (the top-level
\* Return removed the last frame and the top-level closure), and still when
\* the call has returned to its caller.
C1_SuccessLeavesNothing ==
  (pc \in {"returned", "idle"} /\ result.k = "Ok") => (stack = <<>> /\ frames = <<>>)

\* a successful run that went through nested calls has just returned from run
C1_Witness ==
  pc = "returned" /\ result.k = "Ok" /\ prog = "share_script" /\ Len(log_out) >= 3

\* C2: when an instruction raises a runtime error no further instruction is
\* dispatched (the next step is the return of interpret/evaluate), and when
\* the call has returned the error both the frame stack and the value stack
\* are empty, whatever the depth at which the error arose.
C2_ErrorStopsAndClears ==
  [][ /\ (pc = "returned" /\ result.k = "Err") =>
           (pc' = "idle" /\ dispatched' = dispatched /\ result' = result)
      /\ (pc' = "idle" /\ result'.k = "Err") => (frames' = <<>> /\ stack' = <<>>)
    ]_vars

\* an error raised two frames deep has been returned to the caller
C2_Witness ==
  pc = "idle" /\ result.k = "Err" /\ err_frames >= 2 /\ dispatched > 0

\* C3: in every state of the VM (while running, after run has returned, and
\* between interpret/evaluate calls) each Open cell of the registry refers
\* to a live stack slot.
C3_OpenSlotsLive ==
  pc # "panicked" =>
    \A k \in 1..Len(upvalues) :
      upvalues[k].st = "Open" => upvalues[k].idx < Len(stack)

\* the slots closed by the instruction about to be dispatched (Return pops
\* the result before it closes), and the first index it closes
ClosingFrom == IF Instr.op = "Return" THEN frame(VM).slots_start ELSE Len(stack) - 1

\* C4: a Return or CloseUpvalue that closes from index s turns every cell
\* that was Open(i) with i >= s into Closed(v), v being the value slot i held
\* just before the instruction (so the value was taken before the slot was
\* removed); and the closure that outer() returned still reads "outside"
\* when it is called after outer's frame is gone.
C4_ClosedBeforePop ==
  /\ [][ (pc = "running" /\ Instr.op \in {"Return", "CloseUpvalue"}) =>
           \A k \in 1..Len(upvalues) :
             (upvalues[k].st = "Open" /\ upvalues[k].idx >= ClosingFrom) =>
               /\ upvalues[k].idx < Len(stack)
               /\ upvalues'[k] = Closed(At(stack, upvalues[k].idx))
       ]_vars
  /\ [](( /\ pc = "idle" /\ prog = "eval_closure" /\ result.k = "Ok"
          /\ globals["closure"].v.function = "closed_inner" ) =>
        result.value = String("outside"))

\* C5: the registry never holds two Open cells for one slot, so every
\* closure capturing a slot holds the same cell; in share_script the write
\* `x = 2` (SetLocal) is read by get() (GetUpvalue), the write of set(3)
\* (SetUpvalue) is read by `x` (GetLocal), and once outer has returned get
\* and set hold one and the same Closed cell, through which set(4) is read
\* by get().
C5_SharedCells ==
  /\ \A j, k \in 1..Len(upvalues) :
       (j # k /\ upvalues[j].st = "Open" /\ upvalues[k].st = "Open") =>
         upvalues[j].idx # upvalues[k].idx
  /\ (pc = "idle" /\ prog = "share_script" /\ result.k = "Ok") =>
       /\ Len(log_out) >= 3
       /\ SubSeq(log_out, Len(log_out) - 2, Len(log_out)) = <<Number(2), Number(3), Number(4)>>
       /\ globals["g"].v.upvalues = globals["s"].v.upvalues
       /\ upvalues[globals["g"].v.upvalues[1]] = Closed(Number(4))

C5_Witness ==
  /\ pc = "idle" /\ prog = "share_script" /\ result.k = "Ok"
  /\ globals["g"].v.function = "share_get" /\ globals["s"].v.function = "share_set"

\* the instruction about to be dispatched is a Call whose callee is of kind t
CallingKind(t) ==
  /\ pc = "running"
  /\ Instr.op = "Call"
  /\ can_peek(VM, Instr.a)
  /\ peek(VM, Instr.a).t = t

C7_NativeCall ==
  [][ CallingKind("NativeFunction") =>
        /\ host'.args = SubSeq(stack, Len(stack) - Instr.a + 1, Len(stack))
        /\ host'.returned.k = "Ok" =>
             stack' = Append(SubSeq(stack, 1, Len(stack) - Instr.a - 1), host'.returned.value)
    ]_vars

\* C8: Call on a value that is neither a closure nor a native function ends
\* the run with InvalidCallSignature and pushes no frame.
C8_NotCallable ==
  [][ (pc = "running" /\ Instr.op = "Call" /\ can_peek(VM, Instr.a)
         /\ peek(VM, Instr.a).t \notin {"Closure", "NativeFunction"}) =>
        /\ pc' = "returned"
        /\ result' = Err(InvalidCallSignature)
        /\ Len(frames') = Len(frames)
    ]_vars

\* the computed number 3 was called
C8_Witness ==
  pc = "returned" /\ prog = "call_number" /\ result = Err(InvalidCallSignature)

\* C9: Call(argc) on a closure whose function has another arity ends the run
\* with IncorrectParameterCount(arity, argc), pushes no frame and leaves the
\* value stack as it was.
C9_ArityMismatch ==
  [][ (CallingKind("Closure")
         /\ FunctionOf(peek(VM, Instr.a).v.function).arity # Instr.a) =>
        /\ pc' = "returned"
        /\ result' = Err(IncorrectParameterCount(
                           FunctionOf(peek(VM, Instr.a).v.function).arity, Instr.a))
        /\ Len(frames') = Len(frames)
        /\ stack' = stack
    ]_vars

C9_Witness ==
  pc = "returned" /\ prog = "arity2_script" /\ result = Err(IncorrectParameterCount(1, 2))

\* the instruction about to be dispatched is GetGlobal/SetGlobal of an unbound name
UnboundGlobal ==
  /\ pc = "running"
  /\ Instr.op \in {"GetGlobal", "SetGlobal"}
  /\ ToStr(At(chunk(VM).constants, Instr.a)) \notin DOMAIN globals

\* C10: GetGlobal and SetGlobal of an unbound name end the run with
\* UndefinedVariable(name) and leave the globals table unchanged; while a
\* run is in progress only DefineGlobal adds a name to the table.
C10_UndefinedGlobal ==
  [][ /\ UnboundGlobal =>
           /\ pc' = "returned"
           /\ result' = Err(UndefinedVariable(ToStr(At(chunk(VM).constants, Instr.a))))
           /\ globals' = globals
      /\ (pc = "running" /\ DOMAIN globals' # DOMAIN globals) => Instr.op = "DefineGlobal"
    ]_vars

\* the assignment to the unbound `unknown` has failed
C10_Witness ==
  /\ pc = "returned" /\ prog = "undef_set"
  /\ result = Err(UndefinedVariable("unknown"))
  /\ "unknown" \notin DOMAIN globals

\* an evaluate of an expression after the source text has come back from run
Probed(source) == session.source = source /\ runs >= 2 /\ pc = "returned"

\* the evaluate of the expression probe has come back from run
Evaluated(probe) ==
  /\ runs >= 2
  /\ pc = "returned"
  /\ CompiledProbes[session.compiler][probe].result = Ok(prog)

\* C11: an assignment expression evaluates to the assigned value: SetGlobal,
\* SetLocal and SetUpvalue store the top of the stack in their target and
\* leave it on the stack, and after `a = b = c` or `let c = a = v` on
\* globals, locals or captured variables every target holds the rightmost
\* value (the chain associates to the right), under either compiler.
C11_AssignmentValue ==
  /\ [][ /\ (Dispatching("SetGlobal") /\ pc' = "running") =>
              /\ Len(stack') = Len(stack)
              /\ stack'[Len(stack')] = stack[Len(stack)]
              /\ globals'[ToStr(At(chunk(VM).constants, Instr.a))] = stack[Len(stack)]
         /\ (Dispatching("SetLocal") /\ pc' = "running") =>
              /\ Len(stack') = Len(stack)
              /\ stack'[Len(stack')] = stack[Len(stack)]
              /\ stack'[frame(VM).slots_start + Instr.a + 1] = stack[Len(stack)]
         /\ (Dispatching("SetUpvalue") /\ pc' = "running") =>
              /\ Len(stack') = Len(stack)
              /\ stack'[Len(stack')] = stack[Len(stack)]
              /\ LET cell == At(frame(VM).closure.upvalues, Instr.a)
                 IN IF upvalues[cell].st = "Open"
                    THEN stack'[upvalues[cell].idx + 1] = stack[Len(stack)]
                    ELSE upvalues'[cell] = Closed(stack[Len(stack)])
     ]_vars
  /\ [](Probed("associativity") => result = Ok(String("c")))
  /\ [](Probed("syntax") => result = Ok(String("value")))
  /\ [](Probed("local_chain") =>
          result = Ok(Tuple(<< String("c"), String("c"), String("c") >>)))
  /\ [](Probed("upvalue_chain") =>
          result = Ok(Tuple(<< String("c"), String("c"), String("c") >>)))

\* the chain on captured variables has been evaluated
C11_Witness ==
  Probed("upvalue_chain") /\ Evaluated("f") /\ result.k = "Ok" /\ Len(upvalues) = 2

\* inside the run of the evaluate of the expression probe
Evaluating(probe) ==
  /\ runs >= 2
  /\ pc = "running"
  /\ CompiledProbes[session.compiler][probe].result = Ok(prog)

\* C12: `a && b` and `a || b` short-circuit: when the left operand decides
\* (false for &&, true for ||) the expression has the left operand's value and
\* no instruction of the right operand runs (its log is not written);
\* otherwise it has the right operand's value; in all four cases exactly one
\* value is on the stack above the callee slot when the expression is done.
C12_ShortCircuit ==
  /\ [](Evaluated("and_false") => result = Ok(Boolean(FALSE)))
  /\ [](Evaluated("or_true") => result = Ok(Boolean(TRUE)))
  /\ [](Evaluated("and_true") => result = Ok(String("rhs")))
  /\ [](Evaluated("or_false") => result = Ok(String("rhs")))
  /\ [][ /\ (Evaluating("and_false") \/ Evaluating("or_true")) => log_out' = log_out
         /\ (Evaluating("and_true") \/ Evaluating("or_false")) =>
              (pc' = "returned" => log_out' # <<>> /\ log_out'[Len(log_out')] = String("rhs"))
         /\ ( /\ \E probe \in {"and_false", "and_true", "or_true", "or_false"} :
                   Evaluating(probe)
              /\ Dispatching("Return") ) => Len(stack) = 2
     ]_vars

\* `f && log("rhs")` has been evaluated to false
C12_Witness ==
  Evaluated("and_false") /\ result = Ok(Boolean(FALSE)) /\ session.compiler = "token"

\* C13: an `if` without `else` evaluates to the unit when its condition is
\* false and to its block when it is true; with an `else` it evaluates to
\* the block of the branch taken; in every case exactly one value is on the
\* stack above the callee slot when the expression is done (the condition is
\* not left behind).
C13_IfValue ==
  /\ [](Evaluated("if_false") => result = Ok(get_unit))
  /\ [](Evaluated("if_true") => result = Ok(String("a")))
  /\ [](Evaluated("if_else_false") => result = Ok(String("b")))
  /\ [](Evaluated("if_else_true") => result = Ok(String("a")))
  /\ [][ ( /\ \E probe \in {"if_false", "if_true", "if_else_false", "if_else_true"} :
                Evaluating(probe)
           /\ Dispatching("Return") ) => Len(stack) = 2
     ]_vars

\* the evaluation of a probe after a source text is over, however it ended
Finished(source, probe) ==
  /\ session.source = source
  /\ runs >= 2
  /\ pc # "running"
  /\ CompiledProbes[session.compiler][probe].result = Ok(prog)

\* interpret of a source text is over, however it ended
Interpreted(source) == session.source = source /\ runs = 1 /\ pc # "running"

\* C14: a block evaluates to its tail expression, and to the unit when it
\* has none (the empty block and the empty function body included); the
\* variables declared inside it are unknown after it and leave an outer
\* variable of the same name with its own value.
C14_BlockValue ==
  /\ Finished("concatenation", "test") => result = Ok(String("12"))
  /\ Interpreted("empty") => result.k = "Ok"
  /\ Finished("empty", "empty_block") => result = Ok(get_unit)
  /\ Finished("no_tail", "e") => result = Ok(get_unit)
  /\ Finished("no_tail", "u") => result = Ok(get_unit)
  /\ Finished("no_tail", "f") => result = Ok(get_unit)
  /\ Finished("no_tail", "x") => result = Err(UndefinedVariable("x"))
  /\ Finished("scope", "a") => result = Ok(String("outer"))
  /\ Finished("scope", "r") => result = Ok(String("inner"))
  /\ Finished("scope", "b") => result = Err(UndefinedVariable("b"))
  /\ Finished("local_scope", "f") =>
       result = Ok(Tuple(<< String("outer"), String("inner1") >>))

\* C15: a `while` evaluates to the unit whether its body runs or not, and
\* leaves exactly that one value: neither its condition nor a value of its
\* body stays on the stack, so what is declared after the loop is found in
\* its slot.
C15_WhileValue ==
  /\ [](Finished("loops", "i") => result = Ok(Number(2)))
  /\ [](Finished("loops", "w") => result = Ok(get_unit))
  /\ [](Finished("loops", "z") => result = Ok(get_unit))
  /\ [](Finished("booleans", "while_false") => result = Ok(get_unit))
  /\ [](Finished("booleans", "while_false_body") => result = Ok(get_unit))
  /\ [](Finished("local_loops", "f") => result = Ok(String("a")))
  /\ [](Finished("local_loops", "g") => result = Ok(String("b")))
  /\ [][ /\ ( /\ Evaluating("while_false") \/ Evaluating("while_false_body")
              /\ Dispatching("Return") ) => Len(stack) = 2
         \* the callee, i, y and the value of f; the callee, y and the value of g
         /\ ( /\ session.source = "local_loops" /\ Evaluating("f")
              /\ Len(frames) = 2 /\ Dispatching("Return") ) => Len(stack) = 5
         /\ ( /\ session.source = "local_loops" /\ Evaluating("g")
              /\ Len(frames) = 2 /\ Dispatching("Return") ) => Len(stack) = 4
     ]_vars

\* the history of the compilation of the source text of the session
Trace == CompiledSources[session.compiler][session.source].trace

\* C16: an identifier is resolved as a local of the current context when
\* one of that name is in scope (the innermost one), else as an upvalue
\* when an enclosing context has a local of that name, else as a global;
\* one Get/Set pair is chosen, so a local hides an upvalue and an upvalue
\* hides a global, at compile time and in the values read at run time.
C16_ResolutionOrder ==
  /\ ( /\ session # NoSession
       /\ CompiledSources[session.compiler][session.source].result.k = "Ok" ) =>
       \A n \in 1..Len(Trace) :
         Trace[n].ev = "resolve" =>
           /\ Trace[n].kind = "Local" <=> Trace[n].local
           /\ Trace[n].kind = "Local" => Trace[n].idx = Trace[n].local_idx
           /\ Trace[n].kind = "Upvalue" <=> (~Trace[n].local /\ Trace[n].enclosing)
           /\ Trace[n].kind = "Global" <=> (~Trace[n].local /\ ~Trace[n].enclosing)
  /\ Finished("shadowing", "f") =>
       result = Ok(Tuple(<< String("inner"), String("outer"), String("outer") >>))
  /\ Finished("shadowing", "k") => result = Ok(String("global"))
  /\ Finished("shadowing", "a") => result = Ok(String("global"))

\* identifiers of the text were resolved in each of the three ways, and the
\* function that reads all three has returned
C16_Witness ==
  /\ Finished("shadowing", "f") /\ result.k = "Ok"
  /\ \A kind \in {"Local", "Upvalue", "Global"} :
       \E n \in 1..Len(Trace) : Trace[n].ev = "resolve" /\ Trace[n].kind = kind

\* C17: a local is resolvable only once it is marked initialised: a `let`
\* at scope depth > 0 whose initialiser names the variable being declared
\* does not compile (VariableDoesNotExist), also when an outer scope has a
\* variable of that name; a `fn` is marked initialised before its body is
\* compiled, so a global and a local function that call themselves compile
\* and run.
C17_Initialised ==
  /\ Interpreted("self_reference") =>
       result = Err(CompileError(VariableDoesNotExist("a")))
  /\ Interpreted("shadow_self_reference") =>
       result = Err(CompileError(VariableDoesNotExist("a")))
  /\ Interpreted("recursion") => result.k = "Ok"
  /\ Finished("recursion", "count") => result = Ok(Number(2))
  /\ Finished("recursion", "g") => result = Ok(String("a"))
  /\ ( /\ session # NoSession
       /\ CompiledSources[session.compiler][session.source].result.k = "Ok" ) =>
       \A n \in 1..Len(Trace) :
         (Trace[n].ev = "resolve" /\ Trace[n].kind = "Local") => Trace[n].local

\* the local function that calls itself has run, in a build that rejects
\* the initialiser naming its own variable
C17_Witness ==
  /\ Finished("recursion", "g") /\ result = Ok(String("a"))
  /\ CompiledSources[session.compiler]["self_reference"].result =
       [k |-> "Err", error |-> VariableDoesNotExist("a")]

\* C18: the declaration of a local is rejected with VariableAlreadyExists
\* exactly when a local of that name was declared in the same scope, and
\* then no Function is returned; a name of an outer scope can be declared
\* again, and the inner variable is the one read in its scope.
C18_Redeclaration ==
  /\ session # NoSession =>
       \A n \in 1..Len(Trace) :
         Trace[n].ev = "declare" => (Trace[n].rejected <=> Trace[n].same)
  /\ Interpreted("redeclaration") =>
       result = Err(CompileError(VariableAlreadyExists("a")))
  /\ Interpreted("shadow_block") => result.k = "Ok"
  /\ Finished("shadow_block", "f") => result = Ok(String("inner"))
  /\ Interpreted("shadow_initialiser") => result.k = "Ok"
  /\ Finished("shadow_initialiser", "f") => result = Ok(String("inner"))

\* C19: an assignment, with any assignment operator, whose left-hand side
\* is not a plain identifier (`a + b = v`, `!a = v`, `!a += v`) does not
\* compile: the error is InvalidAssignmentTarget and nothing is run.
C19_AssignmentTarget ==
  /\ Interpreted("infix_target") => result = Err(CompileError(InvalidAssignmentTarget))
  /\ Interpreted("prefix_target") => result = Err(CompileError(InvalidAssignmentTarget))
  /\ Interpreted("compound_target") => result = Err(CompileError(InvalidAssignmentTarget))

\* C20: after `x &&= e` the variable x holds x && e, after `x ||= e` it
\* holds x || e, and the assignment has that value; e is not evaluated
\* (nothing is logged) when x alone decides.
C20_LogicalAssignment ==
  /\ Interpreted("logical_assignment") => (result.k = "Ok" /\ log_out = <<>>)
  /\ Finished("logical_assignment", "x") => result = Ok(Boolean(FALSE))
  /\ Finished("logical_assignment", "r") => result = Ok(Boolean(FALSE))
  /\ Finished("logical_assignment", "y") => result = Ok(Boolean(TRUE))
  /\ Finished("logical_assignment", "u") => result = Ok(Boolean(TRUE))
  /\ Finished("logical_assignment", "a") => result = Ok(Boolean(FALSE))
  /\ Finished("logical_assignment", "e") => result = Ok(Boolean(FALSE))
  /\ Finished("logical_assignment", "b") => result = Ok(Boolean(TRUE))
  /\ Finished("logical_assignment", "z") => result = Ok(Boolean(TRUE))

\* C21: JumpIfFalse peeks the top of the stack and does not pop it; when the
\* top is not a boolean the run returns the runtime error TypeError{expected:
\* "boolean"} to the caller (an error value: the VM does not terminate
\* abnormally), for the conditions of if, while, && and ||.
C21_ConditionType ==
  /\ [][ Dispatching("JumpIfFalse") =>
           IF can_peek(Fetched, 0) /\ peek(Fetched, 0).t = "Boolean"
           THEN stack' = stack /\ pc' = "running"
           ELSE pc' = "returned" /\ result' = Err(TypeError("boolean")) ]_vars
  /\ [](\A probe \in {"if_number", "while_string", "and_number", "or_string"} :
          Evaluated(probe) => result = Err(TypeError("boolean")))

\* the texts of a call, by the number of its arguments
CallSources ==
  [n \in {0, 1, 254, 255, 256, 257} |->
     CASE n = 0 -> "call_0" [] n = 1 -> "call_1" [] n = 254 -> "call_254"
       [] n = 255 -> "call_255" [] n = 256 -> "call_256" [] n = 257 -> "call_257"]

\* C22: a call with at most 255 arguments compiles, and to the callee, the
\* arguments and Call(argc) with argc the number of the arguments; a call
\* with more than 255 arguments makes compile return the error
\* TooManyArguments.
C22_ArgumentLimit ==
  \A n \in DOMAIN CallSources :
    Interpreted(CallSources[n]) =>
      IF n <= 255
      THEN /\ session.script.k = "Ok"
           /\ LET code == FunctionOf(session.script.value).chunk.code
              IN /\ Len(code) >= n + 2
                 /\ code[n + 2] = Op1("Call", n)
                 /\ \A i \in 2..(n + 1) : code[i] = Op("True")
      ELSE /\ session.script = Err(TooManyArguments)
           /\ result = Err(CompileError(TooManyArguments))

\* the errors the compilation of the source text of the session has met, in
\* their order
Errors == SelectSeq(Trace, LAMBDA event : event.ev = "error")

\* C23: when the compilation has met errors, compile returns the first of
\* them, and it returns an error, not a Function, whenever it has met one.
C23_FirstError ==
  (session # NoSession /\ runs >= 1) =>
    (Errors # <<>> =>
       /\ session.script.k = "Err"
       /\ session.script = Err(Errors[1].error)
       /\ (runs = 1 => result = Err(CompileError(Errors[1].error))))

\* values of every kind: numbers, booleans, strings, tuples (empty, of one
\* and of two elements, of tuples, of a function), a function, a native
\* function and a closure
ComparedValues ==
  { Number(0), Number(1), Boolean(TRUE), Boolean(FALSE),
    String(""), String("a"), String("1"), String("true"), String("false"),
    get_unit, Tuple(<< Number(1) >>), Tuple(<< String("1") >>),
    Tuple(<< Number(1), String("a") >>), Tuple(<< Number(1), String("b") >>),
    Tuple(<< Number(1), String("a"), Boolean(TRUE) >>),
    Tuple(<< Tuple(<< Number(1) >>) >>), Tuple(<< Tuple(<< Number(0) >>) >>),
    Tuple(<< Closure("f", <<>>) >>),
    Function("f"), Function("g"), NativeFunction("test"),
    Closure("f", <<>>), Closure("g", <<>>) }

\* a number, a boolean, a string, or a tuple of such values
RECURSIVE Plain(_)
Plain(value) ==
  \/ value.t \in {"Number", "Boolean", "String"}
  \/ value.t = "Tuple" /\ \A i \in 1..Len(value.v) : Plain(value.v[i])

\* the two operands of the comparisons that are evaluated, left and right
Comparisons ==
  [eq_true_true |-> << Boolean(TRUE), Boolean(TRUE) >>,
   eq_true_false |-> << Boolean(TRUE), Boolean(FALSE) >>,
   eq_true_1 |-> << Boolean(TRUE), Number(1) >>,
   eq_1_true |-> << Number(1), Boolean(TRUE) >>,
   eq_false_string |-> << Boolean(FALSE), String("false") >>,
   eq_false_empty |-> << Boolean(FALSE), String("") >>,
   eq_tuple |-> << Tuple(<< Number(1), String("a") >>), Tuple(<< Number(1), String("a") >>) >>,
   eq_tuple_longer |-> << Tuple(<< Number(1), String("a") >>),
                          Tuple(<< Number(1), String("a"), Boolean(TRUE) >>) >>,
   eq_tuple_other |-> << Tuple(<< Number(1), String("b") >>),
                         Tuple(<< Number(1), String("a") >>) >>,
   eq_strings |-> << String("a"), String("a") >>,
   eq_numbers |-> << Number(1), Number(2) >>,
   ne_true_true |-> << Boolean(TRUE), Boolean(TRUE) >>,
   ne_true_false |-> << Boolean(TRUE), Boolean(FALSE) >>,
   ne_true_1 |-> << Boolean(TRUE), Number(1) >>,
   ne_false_string |-> << Boolean(FALSE), String("false") >>]

Inequalities == {"ne_true_true", "ne_true_false", "ne_true_1", "ne_false_string"}

\* C24: Equal raises no error: it pops its two operands and pushes a
\* boolean; it is symmetric; it is true exactly for two numbers, two
\* booleans, two strings or two tuples of one length that are the same value,
\* element by element, and false for two values of different kinds; `!=`
\* is its negation.
C24_Equal ==
  /\ [](\A a, b \in ComparedValues :
          /\ equal(a, b) = equal(b, a)
          /\ equal(a, b) <=> (a = b /\ Plain(a))
          /\ a.t # b.t => ~equal(a, b))
  /\ [][ Dispatching("Equal") =>
           LET a == peek(Fetched, 1)
               b == peek(Fetched, 0)
           IN /\ pc' = "running"
              /\ stack' = Append(SubSeq(stack, 1, Len(stack) - 2),
                                 Boolean(a = b /\ Plain(a)))
              /\ equal(a, b) = equal(b, a) ]_vars
  /\ [](\A probe \in DOMAIN Comparisons :
          Finished("equality", probe) =>
            LET same == (Comparisons[probe][1] = Comparisons[probe][2])
            IN result = Ok(Boolean(IF probe \in Inequalities THEN ~same ELSE same)))

\* `t == (1, "a")` has been evaluated and is true
C24_Witness ==
  Finished("equality", "eq_tuple") /\ result = Ok(Boolean(TRUE))

\* C25: Equal is reflexive: a value of any kind, a function, a native
\* function or a closure too, is equal to itself, as a value and when
\* `v == v` is evaluated.
C25_Reflexive ==
  /\ \A probe \in {"eq_true_true", "eq_strings", "eq_tuple", "eq_f_f"} :
       Finished("equality", probe) => result = Ok(Boolean(TRUE))
  /\ \A v \in ComparedValues : equal(v, v)

\* the string form of a number or a string
StringForm(value) == IF value.t = "Number" THEN ToString(value.v) ELSE value.v

\* C26: Add takes two operands off the stack and puts one result there: the
\* sum of two numbers; for two strings, a string and a number or a number
\* and a string, the string forms of the left and then the right operand,
\* concatenated; for any other operands it raises OperationNotSupported.
C26_Add ==
  /\ [][ Dispatching("Add") =>
           LET a == peek(Fetched, 1)
               b == peek(Fetched, 0)
               below == SubSeq(stack, 1, Len(stack) - 2)
           IN CASE a.t = "Number" /\ b.t = "Number" ->
                     pc' = "running" /\ stack' = Append(below, Number(a.v + b.v))
                [] {a.t, b.t} \subseteq {"Number", "String"} /\ "String" \in {a.t, b.t} ->
                     /\ pc' = "running"
                     /\ stack' = Append(below, String(StringForm(a) \o StringForm(b)))
                [] OTHER ->
                     pc' = "returned" /\ result' = Err(OperationNotSupported) ]_vars
  /\ [](Finished("equality", "add_numbers") => result = Ok(Number(3)))
  /\ [](Finished("equality", "add_strings") => result = Ok(String("ab")))
  /\ [](Finished("equality", "add_string_number") => result = Ok(String("a1")))
  /\ [](Finished("equality", "add_number_string") => result = Ok(String("1a")))
  /\ [](\A probe \in {"add_boolean_number", "add_string_boolean", "add_tuples", "add_f_string"} :
          Finished("equality", probe) => result = Err(OperationNotSupported))

\* `1 + "a"` has been evaluated: "1a"
C26_Witness ==
  Finished("equality", "add_number_string") /\ result = Ok(String("1a"))

\* C27: the Return of the top-level function ends the run with the value on
\* top of the stack: evaluate returns the value of its expression, and
\* interpret, whose function ends with the unit and Return, returns unit.
C27_Results ==
  /\ [][ (Dispatching("Return") /\ Len(frames) = 1) =>
           /\ pc' = "returned"
           /\ result' = Ok(peek(Fetched, 0)) ]_vars
  /\ [](\A source \in DOMAIN Sources :
          (Interpreted(source) /\ result.k = "Ok") => result = Ok(get_unit))
  /\ [](Finished("associativity", "a") => result = Ok(String("c")))
  /\ [](Finished("equality", "t") => result = Ok(Tuple(<< Number(1), String("a") >>)))
  /\ [](Finished("equality", "add_numbers") => result = Ok(Number(3)))
  /\ [](Finished("equality", "eq_strings") => result = Ok(Boolean(TRUE)))
  /\ [](Finished("empty", "empty_block") => result = Ok(get_unit))

\* interpret of `fn f() {}; let t = (1, "a");` has returned unit and the
\* evaluate of `t` after it the tuple
C27_Witness ==
  Finished("equality", "t") /\ result = Ok(Tuple(<< Number(1), String("a") >>))

\* C28: the globals are kept from one call of interpret / evaluate to the
\* next: only DefineGlobal and SetGlobal change them, so a global has the
\* value it was defined with or last assigned in every later call; the
\* value stack and the frame stack are empty when a call begins.
C28_GlobalsPersist ==
  /\ [][ globals' # globals =>
           (Dispatching("DefineGlobal") \/ Dispatching("SetGlobal")) ]_vars
  /\ [][ runs' # runs => (stack = <<>> /\ frames = <<>>) ]_vars
  /\ [](pc = "idle" => (stack = <<>> /\ frames = <<>>))
  /\ [](Finished("global", "a") =>
          /\ result = Ok(globals["a"])
          /\ runs = 2 => result = Ok(String("before")))
  /\ [](Finished("global", "a_after") =>
          (result = Ok(String("after")) /\ globals["a"] = String("after")))
  /\ [](Finished("global", "a_arg") =>
          (result = Ok(String("arg")) /\ globals["a"] = String("arg")))

\* `a`, evaluated after `a = "after"` was, is "after"
C28_Witness ==
  Finished("global", "a") /\ runs = 3 /\ result = Ok(String("after"))

\* the code of the function called name of the source text of the session
CodeOf(name) ==
  (CHOOSE compiled_fn \in session.functions : compiled_fn.function.name = name).function.chunk.code

\* C29: a `return` in the TopLevel context makes the compilation fail with
\* TopLevelReturn, with a value or without; in the body of a function it
\* is compiled to the expression, when there is one, and Return.
C29_Return ==
  /\ Interpreted("top_level_return") => result = Err(CompileError(TopLevelReturn))
  /\ Interpreted("top_level_return_value") => result = Err(CompileError(TopLevelReturn))
  /\ session.source = "function_return" =>
       /\ session.script.k = "Ok"
       /\ SubSeq(CodeOf("f"), 1, 2) = << Op1("Constant", 0), Op("Return") >>
       /\ SubSeq(CodeOf("g"), 1, 1) = << Op("Return") >>
       /\ SubSeq(CodeOf("h"), 1, 3) = << Op1("Constant", 0), Op1("GetLocal", 1), Op("Return") >>
  /\ Finished("function_return", "f") => result = Ok(Number(1))
  /\ Finished("function_return", "h") => result = Ok(Number(2))

\* interpret of `return 1;` has returned the error
C29_Witness ==
  /\ Interpreted("top_level_return_value")
  /\ result = Err(CompileError(TopLevelReturn))

\* the variable a value of the source named_locals belongs to: a string is
\* the value of the variable of that name, a number of the counter i, and a
\* closure of the variable its function statement has declared
NameOf(v) ==
  CASE v.t = "String" -> v.v
    [] v.t = "Number" -> "i"
    [] v.t = "Closure" -> FunctionOf(v.v.function).name
    [] OTHER -> ""

\* the names the compiler has resolved as the local idx of a function
LocalAt(function, idx) ==
  { Trace[n].name : n \in { m \in 1..Len(Trace) :
      /\ Trace[m].ev = "resolve"
      /\ Trace[m].kind = "Local"
      /\ Trace[m].function = function
      /\ Trace[m].idx = idx } }

\* C30: the index the compiler gives a local x is the slot x has at run
\* time: GetLocal(i) and SetLocal(i) are dispatched with the value of a
\* variable the compiler has resolved as local i of the running function
\* in the slot slots_start + i, and GetLocal pushes it - also for a local
\* declared in the body of a while loop that runs twice, and for one
\* declared while the left operand of a concatenation is on the stack.
C30_LocalSlots ==
  /\ [][(session.source = "named_locals"
           /\ (Dispatching("GetLocal") \/ Dispatching("SetLocal")))
         => /\ pc' = "running"
            /\ NameOf(At(stack, frame(VM).slots_start + Instr.a))
                 \in LocalAt(FunctionOf(frame(VM).closure.function).name, Instr.a)
            /\ Dispatching("GetLocal")
                 => stack' = Append(stack, At(stack, frame(VM).slots_start + Instr.a))]_vars
  /\ [](/\ Finished("named_locals", "plain")
             => result = Ok(Tuple(<< String("b"), String("a") >>))
        /\ Finished("named_locals", "looped") => result = Ok(String("y"))
        /\ Finished("named_locals", "operand") => result = Ok(String("tz")))

\* C31: the code of an expression leaves the stack one value higher and the
\* code of an expression statement or of a top-level `let` leaves it as it
\* was: whenever the Return that ends a script or an expression given to
\* evaluate is dispatched, the stack holds the callee and the one value to
\* return (the unit a script ends with, the value of the expression).
C31_StackDiscipline ==
  [][(pc = "running" /\ Len(frames) = 1 /\ Dispatching("Return"))
       => Len(stack) = 2]_vars

\* the greatest index of the descriptors add_upvalue is tried with
MaxIndex == 1

\* Upvalue::Local(i) and Upvalue::Upvalue(i), and the lists of at most two
Descriptors == { Local(i) : i \in 0..MaxIndex } \cup { Upvalue(i) : i \in 0..MaxIndex }
DescriptorLists ==
  { <<>> } \cup { << d >> : d \in Descriptors }
           \cup { << d, e >> : d \in Descriptors, e \in Descriptors }

\* a compiler whose only context has captured descs
Capturing(descs) == [NewCompiler(<<>>, "") EXCEPT !.contexts[1].upvalues = descs]

\* C32: add_upvalue(index, is_local) returns the position of a descriptor
\* of the kind and index asked for, whatever the context has captured
\* before, so that two variables one function captures never share an
\* upvalue: inner reads b, p and q, each from its own upvalue.
C32_DistinctUpvalues ==
  /\ \A descs \in DescriptorLists, index \in 0..MaxIndex, is_local \in BOOLEAN :
       LET added == add_upvalue(Capturing(descs), index, is_local, 0)
       IN At(added.c.contexts[1].upvalues, added.r)
            = IF is_local THEN Local(index) ELSE Upvalue(index)
  /\ Finished("shared_upvalue", "outer")
       => result = Ok(Tuple(<< String("b"), String("p"), String("q") >>))

\* C33: a `return e;` in a block nested in a function body ends the call of
\* that function: early() evaluates to "a", the value returned in the block
\* of its if branch, and the log after the if is never executed.
C33_ReturnEndsFunction ==
  /\ (session.source = "nested_return" /\ runs >= 2) => log_out = <<>>
  /\ Finished("nested_return", "early") => result = Ok(String("a"))

\* the history of the compilation that has made the function id: that of
\* the source text of the session, or of the expression it comes from
HistoryOf(id) ==
  LET text == session.compiler \o ":" \o session.source
      source == CompiledSources[session.compiler][session.source]
      MadeFor(probe) ==
        \E k \in 1..Len(CompiledProbes[session.compiler][probe].fns) :
          FnId(session.compiler \o "=" \o probe, k) = id
  IN IF \E k \in 1..Len(source.fns) : FnId(text, k) = id THEN source.trace
     ELSE CompiledProbes[session.compiler]
            [CHOOSE probe \in DOMAIN session.probes : MadeFor(probe)].trace

\* where the compiler meant the jump at index at of the function id to go
TargetsOf(id, at) ==
  LET history == HistoryOf(id)
  IN { history[n].target : n \in { m \in 1..Len(history) :
         /\ history[m].ev = "jump"
         /\ history[m].function = FunctionOf(id).name
         /\ history[m].at = at } }

\* C34: a Jump, and a JumpIfFalse whose condition is false, set ip to the
\* index the compiler meant when it patched the jump (the length of the
\* chunk at that time) or emitted the loop (loop_start); a JumpIfFalse whose
\* condition is true goes on with the next instruction; in every case ip is
\* the index of an instruction of the chunk afterwards.
C34_JumpTargets ==
  [][((Dispatching("Jump") \/ Dispatching("JumpIfFalse")) /\ pc' = "running")
       => LET id == frame(VM).closure.function
              at == frame(VM).ip
              ip == frames'[Len(frames)].ip
              taken == Instr.op = "Jump" \/ ~peek(VM, 0).v
          IN /\ Len(frames') = Len(frames)
             /\ ip < Len(chunk(VM).code)
             /\ taken => ip \in TargetsOf(id, at)
             /\ ~taken => ip = at + 1]_vars

\* a loop compiled by the token compiler has jumped back twice and out
C34_Witness ==
  /\ Finished("named_locals", "looped")
  /\ session.compiler = "token"
  /\ result = Ok(String("y"))

\* C35: Call(argc) on a closure pushes a frame whose slots_start is the
\* stack length minus 1 minus argc, the slot of the callee, and leaves the
\* stack as it is; a Return that is not the last frame's replaces the
\* callee, the arguments and all above them by the value that was on top,
\* and pops that one frame; slots_start grows strictly from the outermost
\* frame to the innermost.
C35_CallAndReturn ==
  /\ [][/\ (Dispatching("Call") /\ Len(frames') = Len(frames) + 1)
             => /\ pc' = "running"
                /\ stack' = stack
                /\ frames'[Len(frames')].slots_start = Len(stack) - 1 - Instr.a
                /\ At(stack, Len(stack) - 1 - Instr.a).t = "Closure"
                /\ frames'[Len(frames')].closure = At(stack, Len(stack) - 1 - Instr.a).v
        /\ (Dispatching("Return") /\ Len(frames) > 1 /\ pc' = "running")
             => /\ Len(frames') = Len(frames) - 1
                /\ stack' = Append(SubSeq(stack, 1, frame(VM).slots_start),
                                   stack[Len(stack)])
        /\ (Dispatching("Call") /\ pc' = "running" /\ Len(frames') # Len(frames) + 1)
             => Len(frames') = Len(frames)]_vars
  /\ [](\A i \in 1..Len(frames) : \A j \in 1..Len(frames) :
          i < j => frames[i].slots_start < frames[j].slots_start)

\* a call with arguments has returned into the frame of its caller, which is
\* not the outermost
C35_Witness ==
  /\ Finished("recursion", "count")
  /\ result.k = "Ok"

\* the upvalue indices the compiler has chosen for name in the function
UpvaluesFor(function, name) ==
  { Trace[n].idx : n \in { m \in 1..Len(Trace) :
      /\ Trace[m].ev = "resolve"
      /\ Trace[m].kind = "Upvalue"
      /\ Trace[m].function = function
      /\ Trace[m].name = name } }

\* C36: add_upvalue on a context that already holds the descriptor asked
\* for returns the position of that descriptor and adds nothing, so all
\* references to one captured variable in one function use one upvalue
\* index - those to b, a local of the enclosing function, and those to p,
\* which the enclosing function captures itself - and no two Open cells of
\* the registry are for one stack slot.
C36_Deduplicated ==
  /\ \A descs \in DescriptorLists, index \in 0..MaxIndex, is_local \in BOOLEAN :
       LET wanted == IF is_local THEN Local(index) ELSE Upvalue(index)
           added == add_upvalue(Capturing(descs), index, is_local, 0)
       IN (\E i \in 1..Len(descs) : descs[i] = wanted)
            => /\ added.c = Capturing(descs)
               /\ At(descs, added.r) = wanted
  /\ session.source = "repeated_capture"
       => /\ Cardinality(UpvaluesFor("inner", "b")) = 1
          /\ Cardinality(UpvaluesFor("inner", "p")) = 1
  /\ \A i \in 1..Len(upvalues) : \A j \in 1..Len(upvalues) :
       (upvalues[i].st = "Open" /\ upvalues[j].st = "Open"
          /\ upvalues[i].idx = upvalues[j].idx) => i = j

\* C37: Log gives the handler the value on top of the stack, once, and
\* leaves the stack as it is; no other instruction reaches the handler, so
\* the handler sees the values in the order in which the Log instructions
\* are dispatched; the callee of a call is evaluated before its arguments
\* and the arguments from left to right, all before the body of the callee.
C37_ProgramOrder ==
  /\ [][/\ (Dispatching("Log") /\ pc' = "running")
             => /\ log_out' = Append(log_out, stack[Len(stack)])
                /\ stack' = stack
        /\ (pc = "running" /\ ~Dispatching("Log")) => log_out' = log_out]_vars
  /\ []((Finished("order", "ordered") /\ runs = 2)
          => /\ result = Ok(Tuple(<< String("x"), String("y") >>))
             /\ log_out = << String("callee"), String("x"), String("y"), String("body") >>)

\* pick()(log("x"), log("y")) has returned with four values logged
C37_Witness ==
  /\ Finished("order", "ordered")
  /\ runs = 2
  /\ Len(log_out) = 4

============================================================================
